---- MODULE Spec2Model ----
(***************************************************************************)
(* Model of TypescriptToOpenApiSpec                                        *)
(* (packages/openapi-schema-generator/src/index.ts).                       *)
(*                                                                         *)
(* Representation.                                                         *)
(*  - A JavaScript string is a sequence of lexical units: a word such as   *)
(*    "string" or "User" is one unit, and every character the code looks   *)
(*    at on its own ("[", "]", "|", "?", " ", ",") is a unit of its own.   *)
(*    endsWith, slice, replace, split, includes and trim are computed on   *)
(*    these sequences.                                                     *)
(*  - A JavaScript value is tagged with its typeof: JStr, JBool, JNum,     *)
(*    JArr.                                                                *)
(*  - A JavaScript object with computed keys (a Definition, the            *)
(*    definitions mapping, properties, a schema set) is the sequence of    *)
(*    its <<key, value>> entries in own-property order.  Keys are          *)
(*    identifiers (never integer-like), so that order is insertion order.  *)
(*  - A schema node is a record.  The key $ref is written ref, and a key   *)
(*    whose value is undefined (required: undefined) is left out of the    *)
(*    record, as JSON.stringify and toEqual see it.                        *)
(***************************************************************************)
EXTENDS Integers, Sequences, FiniteSets, TLC

VARIABLES
    pc,               \* position of the running call
    pathToFile,       \* the path given to generateMany or generateByName
    file,             \* declarations of the source file, in the order visitNode meets them
    interfaceName,    \* the name given to generateByName, undefined in generateMany
    cursor,           \* index of the next declaration visitNode will visit
    definitions,      \* extractDefinitions' running mapping
    referencedModels, \* the set findReferencedModels returned
    schemas,          \* the schema set before dereferenceArrays
    result,           \* what the call resolved with, or the error it threw
    arg,              \* argument of a helper called on its own
    ret,              \* the value that helper returned
    prototype,        \* own properties of the members of Object.prototype
    accessToken,      \* ClientCredentials.accessToken, the static field
    clock,            \* the time, in seconds
    pending,          \* getAccessToken calls awaiting the token endpoint
    settled,          \* what the last getAccessToken call settled with
    defaultFeatureFlags, \* the vtx profile's module-level default flags
    flags,            \* the remote configuration the last getProfile call got
    profile,          \* what the last getProfile call resolved with
    params,           \* the input of the next DynamoDB command
    rows,             \* the rows fullScan or recursiveFetch has collected
    lastEvaluatedKey, \* the LastEvaluatedKey of the last page
    sent,             \* the ExclusiveStartKey of every command sent, in order
    pages,            \* every page received, in order
    lambdaHandlers,   \* global.lambdaHandlers
    registrations,    \* every target passed to registerLambdaHandler, in order
    handlerDirs,      \* the directories of src/functions generate found
    handler,          \* index of the next directory generate will import
    lambdaHandlersRegistered, \* generate's flag: some import succeeded
    errors,           \* what generate wrote with console.error, in order
    imports,          \* the handler paths generate required, in order
    finalSpec         \* the document generate is assembling

\* the state of TypescriptToOpenApiSpec
generatorVars ==
    <<pc, pathToFile, file, interfaceName, cursor, definitions, referencedModels,
      schemas, result, arg, ret, prototype>>

\* the state of ClientCredentials
authVars == <<accessToken, clock, pending, settled>>

\* the state of the vtx feature-flag profile
flagVars == <<defaultFeatureFlags, flags, profile>>

\* the state of a DynamoDb.fullScan or DynamoDb.recursiveFetch call
scanVars == <<params, rows, lastEvaluatedKey, sent, pages>>

\* the lambda handler registry and generate's lambda handler discovery
lambdaVars ==
    <<lambdaHandlers, registrations, handlerDirs, handler,
      lambdaHandlersRegistered, errors, imports, finalSpec>>

otherVars == <<scanVars, lambdaVars>>

vars == <<generatorVars, authVars, flagVars, scanVars, lambdaVars>>

(***************************************************************************)
(* Bounds                                                                  *)
(***************************************************************************)
\* longest type expression, in lexical units, handed to typeToSchemaObject
MaxLen == 5
\* most entries of a Definition handed to dictToOpenAPI
MaxFields == 2
\* most declarations of a source file
MaxDecls == 3
\* deepest nesting of the nodes handed to dereferenceArrays
MaxDepth == 3

(***************************************************************************)
(* Strings                                                                 *)
(***************************************************************************)
W(word) == <<word>>

ARRAY_MARKER == <<"[", "]">>
OPTIONAL_MARKER == <<"?">>
PIPE == <<"|">>
UNDEFINED_ALTERNATIVE == <<" ", "|", " ", "undefined">>
REF_PREFIX == <<"#/components/schemas/">>

endsWith(s, suffix) ==
    /\ Len(s) >= Len(suffix)
    /\ SubSeq(s, Len(s) - Len(suffix) + 1, Len(s)) = suffix

\* s.slice(0, -n)
sliceEnd(s, n) == IF Len(s) > n THEN SubSeq(s, 1, Len(s) - n) ELSE <<>>

\* s.indexOf(pattern) + 1, 0 when the pattern does not occur
indexOf(s, pattern) ==
    LET hits == {i \in 1..(Len(s) - Len(pattern) + 1) :
                    SubSeq(s, i, i + Len(pattern) - 1) = pattern}
    IN  IF hits = {} THEN 0 ELSE CHOOSE i \in hits : \A j \in hits : i <= j

includes(s, pattern) == indexOf(s, pattern) # 0

\* s.replace(pattern, ''): the first occurrence only
replaceFirst(s, pattern) ==
    LET i == indexOf(s, pattern)
    IN  IF i = 0 THEN s
        ELSE SubSeq(s, 1, i - 1) \o SubSeq(s, i + Len(pattern), Len(s))

\* s.split(sep)[0]
splitFirst(s, sep) ==
    LET i == indexOf(s, sep)
    IN  IF i = 0 THEN s ELSE SubSeq(s, 1, i - 1)

RECURSIVE trimStart(_)
trimStart(s) == IF s # <<>> /\ Head(s) = " " THEN trimStart(Tail(s)) ELSE s

RECURSIVE trimEnd(_)
trimEnd(s) ==
    IF s # <<>> /\ s[Len(s)] = " " THEN trimEnd(SubSeq(s, 1, Len(s) - 1)) ELSE s

trim(s) == trimEnd(trimStart(s))

(***************************************************************************)
(* JavaScript values and objects                                           *)
(***************************************************************************)
undefined == [typeof |-> "undefined"]
JStr(s) == [typeof |-> "string", v |-> s]
JBool(b) == [typeof |-> "boolean", v |-> b]
JNum(n) == [typeof |-> "number", v |-> n]
JArr(a) == [typeof |-> "object", isArray |-> TRUE, v |-> a]

isString(value) == value.typeof = "string"
isArray(value) == value.typeof = "object"

\* Object.keys(obj)
Keys(obj) == [i \in 1..Len(obj) |-> obj[i][1]]

\* key in obj
Has(obj, key) == \E i \in 1..Len(obj) : obj[i][1] = key

\* obj[key], for a key the object has
Get(obj, key) == obj[CHOOSE i \in 1..Len(obj) : obj[i][1] = key][2]

\* obj[key] = value: an existing key keeps its place, a new key goes last
Put(obj, key, value) ==
    IF Has(obj, key)
    THEN [i \in 1..Len(obj) |-> IF obj[i][1] = key THEN <<key, value>> ELSE obj[i]]
    ELSE Append(obj, <<key, value>>)

\* The members every object literal inherits from Object.prototype.  obj[key]
\* reads them when the object has no entry of its own under the key.
ObjectPrototype ==
    {W("constructor"), W("toString"), W("toLocaleString"), W("valueOf"),
     W("hasOwnProperty"), W("isPrototypeOf"), W("propertyIsEnumerable"),
     W("__proto__")}

\* a JavaScript process starts with no enumerable property on any of them
CleanPrototype == [member \in ObjectPrototype |-> <<>>]

\* obj[key] is truthy: an entry of its own (always an object here), or an
\* inherited member
Defined(obj, key) == Has(obj, key) \/ key \in ObjectPrototype

\* the enumerable entries of obj[key]: an inherited member has none, and
\* neither has undefined ?? {}
EntriesAt(obj, key) == IF Has(obj, key) THEN Get(obj, key) ELSE <<>>

\* { ...a, ...b }
RECURSIVE Spread(_, _)
Spread(a, b) ==
    IF b = <<>> THEN a ELSE Spread(Put(a, b[1][1], b[1][2]), Tail(b))

(***************************************************************************)
(* typeToSchemaObject                                                      *)
(***************************************************************************)
PRIMITIVES == {W("string"), W("number"), W("boolean")}

\* `#/components/schemas/${value}`
refTo(value) == [ref |-> REF_PREFIX \o value]

\* slip: 'boolean' is missing from the switch
RECURSIVE typeToSchemaObject_noBoolean(_)
typeToSchemaObject_noBoolean(value) ==
    IF isString(value) /\ endsWith(value.v, ARRAY_MARKER)
    THEN [type |-> W("array"),
          items |-> typeToSchemaObject_noBoolean(JStr(sliceEnd(value.v, 2)))]
    ELSE IF value.v \in {W("string"), W("number")}
         THEN [type |-> value.v]
         ELSE refTo(value.v)

\* slip: the element type is not converted recursively
typeToSchemaObject_oneLevel(value) ==
    LET leaf(s) == IF s \in {W("string"), W("number"), W("boolean")}
                   THEN [type |-> s] ELSE refTo(s)
    IN  IF isString(value) /\ endsWith(value.v, ARRAY_MARKER)
        THEN [type |-> W("array"), items |-> leaf(sliceEnd(value.v, 2))]
        ELSE leaf(value.v)

\* slip: arrays are left to the dereferenceArrays pass
typeToSchemaObject_refOnly(value) ==
    IF value.v \in {W("string"), W("number"), W("boolean")}
    THEN [type |-> value.v]
    ELSE refTo(value.v)

RECURSIVE typeToSchemaObject(_)
typeToSchemaObject(value) ==
    IF isString(value) /\ endsWith(value.v, ARRAY_MARKER)
    THEN [type |-> W("array"),
          items |-> typeToSchemaObject(JStr(sliceEnd(value.v, 2)))]
    ELSE IF value.v \in PRIMITIVES
         THEN [type |-> value.v]
         ELSE refTo(value.v)

(***************************************************************************)
(* dictToOpenAPI                                                           *)
(***************************************************************************)
\* slip: some instead of every
calcType_some(arrayVal) ==
    IF \E i \in 1..Len(arrayVal) : arrayVal[i].typeof = "boolean"
    THEN W("boolean")
    ELSE IF \E i \in 1..Len(arrayVal) : arrayVal[i].typeof = "number"
         THEN W("number")
         ELSE W("string")

\* arrayVal.every(...) ? 'boolean' : arrayVal.every(...) ? 'number' : 'string'
calcType(arrayVal) ==
    IF \A i \in 1..Len(arrayVal) : arrayVal[i].typeof = "boolean"
    THEN W("boolean")
    ELSE IF \A i \in 1..Len(arrayVal) : arrayVal[i].typeof = "number"
         THEN W("number")
         ELSE W("string")

\* the object node returned after the loop
objectNode(properties, required) ==
    IF Len(required) > 0
    THEN [type |-> W("object"), properties |-> properties, required |-> required]
    ELSE [type |-> W("object"), properties |-> properties]

\* slip: required.unshift instead of required.push
RECURSIVE dictLoop_unshift(_, _, _, _)
dictLoop_unshift(interfaceObj, i, properties, required) ==
    IF i > Len(interfaceObj) THEN objectNode(properties, required)
    ELSE
      LET key == interfaceObj[i][1]
          value == interfaceObj[i][2]
          isRequired == ~endsWith(key, OPTIONAL_MARKER)
          propertyName == IF isRequired THEN key ELSE sliceEnd(key, 1)
          val == IF isString(value)
                 THEN JStr(replaceFirst(value.v, UNDEFINED_ALTERNATIVE))
                 ELSE value
      IN  IF isArray(val)
          THEN [type |-> calcType(val.v), enum |-> val.v]
          ELSE
            LET first == IF includes(val.v, PIPE)
                         THEN JStr(trim(splitFirst(val.v, PIPE)))
                         ELSE val
            IN  dictLoop_unshift(interfaceObj, i + 1,
                         Put(properties, propertyName, typeToSchemaObject(first)),
                         IF isRequired THEN <<propertyName>> \o required
                                       ELSE required)

\* slip: the enum list is added to the object node under construction
RECURSIVE dictLoop_hybrid(_, _, _, _)
dictLoop_hybrid(interfaceObj, i, properties, required) ==
    IF i > Len(interfaceObj) THEN objectNode(properties, required)
    ELSE
      LET key == interfaceObj[i][1]
          value == interfaceObj[i][2]
          isRequired == ~endsWith(key, OPTIONAL_MARKER)
          propertyName == IF isRequired THEN key ELSE sliceEnd(key, 1)
          val == IF isString(value)
                 THEN JStr(replaceFirst(value.v, UNDEFINED_ALTERNATIVE))
                 ELSE value
      IN  IF isArray(val)
          THEN [type |-> calcType(val.v), enum |-> val.v,
                properties |-> properties]
          ELSE
            LET first == IF includes(val.v, PIPE)
                         THEN JStr(trim(splitFirst(val.v, PIPE)))
                         ELSE val
            IN  dictLoop_hybrid(interfaceObj, i + 1,
                         Put(properties, propertyName, typeToSchemaObject(first)),
                         IF isRequired THEN Append(required, propertyName)
                                       ELSE required)

\* the for loop over Object.entries(interfaceObj), from entry i on
RECURSIVE dictLoop(_, _, _, _)
dictLoop(interfaceObj, i, properties, required) ==
    IF i > Len(interfaceObj) THEN objectNode(properties, required)
    ELSE
      LET key == interfaceObj[i][1]
          value == interfaceObj[i][2]
          isRequired == ~endsWith(key, OPTIONAL_MARKER)
          propertyName == IF isRequired THEN key ELSE sliceEnd(key, 1)
          val == IF isString(value)
                 THEN JStr(replaceFirst(value.v, UNDEFINED_ALTERNATIVE))
                 ELSE value
      IN  IF isArray(val)
          THEN [type |-> calcType(val.v), enum |-> val.v]
          ELSE
            LET first == IF includes(val.v, PIPE)
                         THEN JStr(trim(splitFirst(val.v, PIPE)))
                         ELSE val
            IN  dictLoop(interfaceObj, i + 1,
                         Put(properties, propertyName, typeToSchemaObject(first)),
                         IF isRequired THEN Append(required, propertyName)
                                       ELSE required)

dictToOpenAPI(interfaceObj) == dictLoop(interfaceObj, 1, <<>>, <<>>)

(***************************************************************************)
(* dereferenceArrays                                                       *)
(***************************************************************************)
\* slip: array items are not visited
RECURSIVE dereferenceArrays_skipItems(_)
dereferenceArrays_skipItems(obj) ==
    [i \in 1..Len(obj) |->
        LET key == obj[i][1]
            value == obj[i][2]
        IN  <<key,
              IF "ref" \in DOMAIN value
              THEN IF endsWith(value.ref, ARRAY_MARKER)
                   THEN [type |-> W("array"),
                         items |-> [ref |-> sliceEnd(value.ref, 2)]]
                   ELSE value
              ELSE IF /\ "type" \in DOMAIN value
                      /\ value.type = W("object")
                      /\ "properties" \in DOMAIN value
                   THEN [value EXCEPT
                            !.properties = dereferenceArrays_skipItems(value.properties)]
                   ELSE value>>]

RECURSIVE dereferenceArrays(_)
dereferenceArrays(obj) ==
    [i \in 1..Len(obj) |->
        LET key == obj[i][1]
            value == obj[i][2]
        IN  <<key,
              IF "ref" \in DOMAIN value
              THEN IF endsWith(value.ref, ARRAY_MARKER)
                   THEN [type |-> W("array"),
                         items |-> [ref |-> sliceEnd(value.ref, 2)]]
                   ELSE value
              ELSE IF /\ "type" \in DOMAIN value
                      /\ value.type = W("object")
                      /\ "properties" \in DOMAIN value
                   THEN [value EXCEPT
                            !.properties = dereferenceArrays(value.properties)]
                   ELSE IF /\ "type" \in DOMAIN value
                           /\ value.type = W("array")
                           /\ "items" \in DOMAIN value
                        THEN [value EXCEPT
                                 !.items = dereferenceArrays(
                                     << <<W("item"), value.items>> >>)[1][2]]
                        ELSE value>>]

(***************************************************************************)
(* dereferenceArrays on a heap of objects                                  *)
(*                                                                         *)
(* To tell an object that was written to from a new object, objects live   *)
(* in a heap: a sequence of cells, an object's address being its index.    *)
(* A schema set or a properties object is the cell [entries |-> e], e the  *)
(* <<key, address>> pairs; a node is the cell of its keys, properties and  *)
(* items holding an address.  Strings are values.                          *)
(***************************************************************************)
RECURSIVE dereferenceArraysHeap(_, _)

\* an object literal: a new cell at the next address
New(heap, object) == Append(heap, object)

\* object[key] = value
Store(heap, object, key, value) ==
    [heap EXCEPT ![object] = [entries |-> Put(heap[object].entries, key, value)]]

\* slip: an object node's properties are dereferenced into the node itself
RECURSIVE derefLoop_inPlace(_, _, _, _)
derefLoop_inPlace(heap, entries, i, into) ==
    IF i > Len(entries) THEN heap
    ELSE
      LET key == entries[i][1]
          at == entries[i][2]
          value == heap[at]
      IN  IF "ref" \in DOMAIN value
          THEN IF endsWith(value.ref, ARRAY_MARKER)
               THEN LET h1 == New(heap, [ref |-> sliceEnd(value.ref, 2)])
                        h2 == New(h1, [type |-> W("array"), items |-> Len(h1)])
                    IN  derefLoop_inPlace(Store(h2, into, key, Len(h2)),
                                          entries, i + 1, into)
               ELSE derefLoop_inPlace(Store(heap, into, key, at),
                                      entries, i + 1, into)
          ELSE IF /\ "type" \in DOMAIN value
                  /\ value.type = W("object")
                  /\ "properties" \in DOMAIN value
               THEN LET inner == dereferenceArraysHeap(heap, value.properties)
                        h1 == [inner.heap EXCEPT ![at].properties = inner.addr]
                    IN  derefLoop_inPlace(Store(h1, into, key, at),
                                          entries, i + 1, into)
               ELSE IF /\ "type" \in DOMAIN value
                       /\ value.type = W("array")
                       /\ "items" \in DOMAIN value
                    THEN LET h1 == New(heap, [entries |-> << <<W("item"), value.items>> >>])
                             inner == dereferenceArraysHeap(h1, Len(h1))
                             h2 == New(inner.heap,
                                       [value EXCEPT
                                           !.items = Get(inner.heap[inner.addr].entries,
                                                         W("item"))])
                         IN  derefLoop_inPlace(Store(h2, into, key, Len(h2)),
                                               entries, i + 1, into)
                    ELSE derefLoop_inPlace(Store(heap, into, key, at),
                                           entries, i + 1, into)

\* the for loop over Object.entries(obj), from entry i on; into is the
\* address of the call's result object
RECURSIVE derefLoop(_, _, _, _)
derefLoop(heap, entries, i, into) ==
    IF i > Len(entries) THEN heap
    ELSE
      LET key == entries[i][1]
          at == entries[i][2]
          value == heap[at]
      IN  IF "ref" \in DOMAIN value
          THEN IF endsWith(value.ref, ARRAY_MARKER)
               THEN LET h1 == New(heap, [ref |-> sliceEnd(value.ref, 2)])
                        h2 == New(h1, [type |-> W("array"), items |-> Len(h1)])
                    IN  derefLoop(Store(h2, into, key, Len(h2)),
                                  entries, i + 1, into)
               ELSE derefLoop(Store(heap, into, key, at), entries, i + 1, into)
          ELSE IF /\ "type" \in DOMAIN value
                  /\ value.type = W("object")
                  /\ "properties" \in DOMAIN value
               THEN LET inner == dereferenceArraysHeap(heap, value.properties)
                        h1 == New(inner.heap,
                                  [value EXCEPT !.properties = inner.addr])
                    IN  derefLoop(Store(h1, into, key, Len(h1)),
                                  entries, i + 1, into)
               ELSE IF /\ "type" \in DOMAIN value
                       /\ value.type = W("array")
                       /\ "items" \in DOMAIN value
                    THEN LET h1 == New(heap, [entries |-> << <<W("item"), value.items>> >>])
                             inner == dereferenceArraysHeap(h1, Len(h1))
                             h2 == New(inner.heap,
                                       [value EXCEPT
                                           !.items = Get(inner.heap[inner.addr].entries,
                                                         W("item"))])
                         IN  derefLoop(Store(h2, into, key, Len(h2)),
                                       entries, i + 1, into)
                    ELSE derefLoop(Store(heap, into, key, at),
                                   entries, i + 1, into)

\* const result = {}; the loop; return result
dereferenceArraysHeap(heap, obj) ==
    LET h1 == New(heap, [entries |-> <<>>])
    IN  [heap |-> derefLoop(h1, h1[obj].entries, 1, Len(h1)), addr |-> Len(h1)]

(***************************************************************************)
(* findReferencedModels                                                    *)
(***************************************************************************)
primitiveTypes ==
    {W("string"), W("number"), W("boolean"), W("any"), W("unknown"), W("null"),
     W("undefined"), W("void"), W("never"), W("object"), W("array")}

\* array.join(','), for an array of strings
RECURSIVE join(_)
join(a) ==
    IF a = <<>> THEN <<>>
    ELSE IF Len(a) = 1 THEN a[1].v
         ELSE a[1].v \o <<",">> \o join(Tail(a))

\* value.toString()
toString(value) == IF isArray(value) THEN join(value.v) ELSE value.v

\* a non-empty string or any array
truthy(value) == isArray(value) \/ (isString(value) /\ value.v # <<>>)

\* The loop over Object.entries(schema) from entry i on.  acc.refs is the
\* shared Set; active holds, for every call on the stack, the name it was
\* entered for and the Set as it was on entry.  Entering a name again with
\* the same Set repeats that call for ever: the stack overflows and the
\* RangeError unwinds every frame.
RECURSIVE findLoop(_, _, _, _, _)
findLoop(schema, i, defs, acc, active) ==
    IF acc.overflow \/ i > Len(schema) THEN acc
    ELSE
      LET value == schema[i][2]
          isPrimitive == isString(value) /\ value.v \in primitiveTypes
          visited == isString(value) /\ value.v \in acc.refs
      IN  IF isPrimitive \/ ~truthy(value) \/ visited
          THEN findLoop(schema, i + 1, defs, acc, active)
          ELSE
            LET cleanValue == trim(splitFirst(toString(value), PIPE))
                added == acc.refs \cup {cleanValue}
                frame == <<cleanValue, added>>
            IN  IF ~Defined(defs, cleanValue)
                THEN findLoop(schema, i + 1, defs,
                              [refs |-> added, overflow |-> FALSE], active)
                ELSE IF frame \in active
                     THEN [refs |-> added, overflow |-> TRUE]
                     ELSE findLoop(schema, i + 1, defs,
                                   findLoop(EntriesAt(defs, cleanValue), 1, defs,
                                            [refs |-> added, overflow |-> FALSE],
                                            active \cup {frame}),
                                   active)

\* findReferencedModels(definitions[root], definitions, new Set([root]))
findReferencedModels(root, defs) ==
    findLoop(EntriesAt(defs, root), 1, defs,
             [refs |-> {root}, overflow |-> FALSE], {<<root, {root}>>})

(***************************************************************************)
(* visitNode                                                               *)
(***************************************************************************)
\* slip: definition[name] = {}
orEmpty_fresh(definition, name) == <<>>

\* definition[name] ?? {}, for a declared name (none is a member of
\* Object.prototype)
orEmpty(definition, name) ==
    IF Has(definition, name) THEN Get(definition, name) ELSE <<>>

\* { enum: values }
enumOf(values) == << <<W("enum"), JArr(values)>> >>

\* slip: the initializer is ignored
enumMemberValues_nameOnly(members) ==
    [i \in 1..Len(members) |-> JStr(members[i].name)]

\* the values of an enum declaration's members
enumMemberValues(members) ==
    [i \in 1..Len(members) |->
        IF isString(members[i].initializer)
        THEN JStr(members[i].initializer.v)
        ELSE JStr(members[i].name)]

visitEnum(definition, node) ==
    Put(definition, node.name, enumOf(enumMemberValues(node.members)))

\* slip: a base without a Definition falls back to the first Definition
RECURSIVE mergeHeritage_fallback(_, _, _, _)
mergeHeritage_fallback(definition, name, heritage, i) ==
    IF i > Len(heritage) THEN definition
    ELSE mergeHeritage_fallback(
             Put(definition, name,
                 Spread(IF Defined(definition, heritage[i])
                        THEN EntriesAt(definition, heritage[i])
                        ELSE definition[1][2],
                        Get(definition, name))),
             name, heritage, i + 1)

\* the loops over node.heritageClauses and their types, from base i on
RECURSIVE mergeHeritage(_, _, _, _)
mergeHeritage(definition, name, heritage, i) ==
    IF i > Len(heritage) THEN definition
    ELSE IF Defined(definition, heritage[i])
         THEN mergeHeritage(
                  Put(definition, name,
                      Spread(EntriesAt(definition, heritage[i]),
                             Get(definition, name))),
                  name, heritage, i + 1)
         ELSE mergeHeritage(definition, name, heritage, i + 1)

\* the loop over node.members, from member i on
RECURSIVE addMembers(_, _, _, _)
addMembers(definition, name, members, i) ==
    IF i > Len(members) THEN definition
    ELSE IF members[i].type # undefined
         THEN LET propertyName ==
                      members[i].name \o
                      (IF members[i].questionToken THEN OPTIONAL_MARKER ELSE <<>>)
              IN  addMembers(
                      Put(definition, name,
                          Put(Get(definition, name), propertyName, members[i].type)),
                      name, members, i + 1)
         ELSE addMembers(definition, name, members, i + 1)

visitClassOrInterface(definition, node) ==
    addMembers(
        mergeHeritage(Put(definition, node.name, orEmpty(definition, node.name)),
                      node.name, node.heritage, 1),
        node.name, node.members, 1)

\* text.replace(/['"]/g, '')
stripQuotes(text) == SelectSeq(text, LAMBDA u : u \notin {"'", "\""})

visitTypeAlias(definition, node) ==
    LET kept == Put(definition, node.name, orEmpty(definition, node.name))
    IN  IF node.isUnion
        THEN Put(kept, node.name,
                 enumOf([i \in 1..Len(node.types) |->
                            IF node.types[i].isLiteral
                            THEN JStr(stripQuotes(node.types[i].text))
                            ELSE JStr(node.types[i].text)]))
        ELSE kept

visitVariableStatement(definition, node) ==
    IF node.name # <<>>
    THEN Put(definition, node.name,
             enumOf([i \in 1..Len(node.properties) |-> JStr(node.properties[i])]))
    ELSE definition

(***************************************************************************)
(* ClientCredentials                                                       *)
(*                                                                         *)
(* An access token is what decodeJwt makes of it: jwt is whether it        *)
(* decodes at all, exp its exp claim (undefined when it has none), client  *)
(* the client id it was issued to.                                         *)
(***************************************************************************)
\* the latest time
MaxClock == 2
\* most getAccessToken calls awaiting the token endpoint at once
MaxPending == 2

\* new ClientCredentials(tokenUrl, clientId, clientSecret, scope)
Clients == {"vtx", "vta"}

AccessTokens ==
    {[jwt |-> FALSE, exp |-> undefined, client |-> c] : c \in Clients}
    \cup {[jwt |-> TRUE, exp |-> e, client |-> c] :
             e \in {undefined} \cup {JNum(n) : n \in 0..MaxClock}, c \in Clients}

\* what the token endpoint answers: not ok, or ok with a body that holds an
\* access_token or holds none
Responses ==
    {[ok |-> FALSE]}
    \cup {[ok |-> TRUE, access_token |-> t] : t \in AccessTokens \cup {undefined}}

\* slip: a token without an exp claim counts as valid
isAccessTokenExpired_noExp(token, currentTime) ==
    IF ~token.jwt THEN TRUE
    ELSE IF token.exp = undefined \/ token.exp.v = 0 THEN FALSE
         ELSE currentTime > token.exp.v

\* decodeJwt throws on a token that does not decode, and the catch returns
\* true; !exp is true of a missing exp and of 0
isAccessTokenExpired(token, currentTime) ==
    IF ~token.jwt THEN TRUE
    ELSE IF token.exp = undefined \/ token.exp.v = 0 THEN TRUE
         ELSE currentTime > token.exp.v

\* !ClientCredentials.accessToken || this.isAccessTokenExpired()
mustFetch(token, currentTime) ==
    token = undefined \/ isAccessTokenExpired(token, currentTime)

AuthIdle ==
    /\ accessToken = undefined
    /\ clock = 0
    /\ pending = <<>>
    /\ settled = undefined

(***************************************************************************)
(* The vtx feature-flag profile                                            *)
(*                                                                         *)
(* A plain object is JObj of its entries, so that merge can tell objects,  *)
(* arrays and primitives apart as lodash does.  merge changes its first    *)
(* argument in place and returns it: the value it returns is also the new  *)
(* value of that argument.  Remote configurations are of the type          *)
(* getFeatureFlags<FeatureFlags> declares, with any of the flags left out. *)
(***************************************************************************)
\* most flag groups in one remote configuration
MaxGroups == 2

\* a plain object: it is no array, and so has no isArray
JObj(entries) == [typeof |-> "object", v |-> entries]

\* lodash isObject, on the values of a configuration
isObject(value) == value.typeof = "object"

\* lodash isPlainObject
isPlainObject(value) == isObject(value) /\ "isArray" \notin DOMAIN value

\* lodash safeGet: object[key], undefined for a key the object lacks
safeGet(object, key) ==
    IF isPlainObject(object)
    THEN IF Has(object.v, key) THEN Get(object.v, key) ELSE undefined
    ELSE IF key \in 1..Len(object.v) THEN object.v[key] ELSE undefined

RECURSIVE baseMerge(_, _)

\* what baseMerge leaves at object[key] for one key of the source: a
\* primitive is assigned (undefined only to a key the object lacks); an
\* array is merged into the array the object has there, or into a new one;
\* a plain object is merged into the object it has there, or into a new one
mergeValue(objValue, srcValue) ==
    IF ~isObject(srcValue)
    THEN IF srcValue = undefined /\ objValue # undefined THEN objValue ELSE srcValue
    ELSE IF ~isPlainObject(srcValue)
    THEN baseMerge(IF isObject(objValue) /\ ~isPlainObject(objValue)
                   THEN objValue ELSE JArr(<<>>), srcValue)
    ELSE baseMerge(IF isObject(objValue) THEN objValue ELSE JObj(<<>>), srcValue)

\* baseMerge's loop over the keys of a plain source, from entry i on
RECURSIVE mergeLoop(_, _, _)
mergeLoop(object, source, i) ==
    IF i > Len(source.v)
    THEN object
    ELSE LET key == source.v[i][1]
             merged == mergeValue(safeGet(object, key), source.v[i][2])
         IN  mergeLoop(JObj(Put(object.v, key, merged)), source, i + 1)

\* lodash baseMerge: the keys of an array are its indexes
baseMerge(object, source) ==
    IF ~isPlainObject(source)
    THEN JArr([i \in 1..(IF Len(object.v) > Len(source.v)
                         THEN Len(object.v) ELSE Len(source.v)) |->
                 IF i <= Len(source.v)
                 THEN mergeValue(safeGet(object, i), source.v[i])
                 ELSE object.v[i]])
    ELSE mergeLoop(object, source, 1)

\* merge(object, source) of lodash.merge
merge(object, source) == baseMerge(object, source)

Flag(name, on) == <<W(name), JBool(on)>>

\* defaultFeatureFlags as the module declares it
DefaultFeatureFlags ==
    JObj(<<
      <<W("welshTranslation"),
        JObj(<<Flag("enabled", TRUE), Flag("translatePassTestResult", TRUE),
               Flag("translateFailTestResult", TRUE),
               Flag("translatePrsTestResult", TRUE)>>)>>,
      <<W("issueDocsCentrally"), JObj(<<Flag("enabled", TRUE)>>)>>,
      <<W("recallsApi"), JObj(<<Flag("enabled", TRUE)>>)>>,
      <<W("automatedCt"), JObj(<<Flag("enabled", FALSE)>>)>>,
      <<W("abandonedCerts"), JObj(<<Flag("enabled", TRUE)>>)>>,
      <<W("specialistDefects"),
        JObj(<<Flag("enabled", FALSE),
               <<W("adasImNumbers"), JArr(<<JNum(29)>>)>>,
               Flag("includeOnCertificates", FALSE),
               Flag("includeOnEnquiry", FALSE)>>)>>,
      <<W("skipAutomatedProcesses"),
        JObj(<<Flag("enabled", FALSE), Flag("atfReportGen", FALSE),
               Flag("centralDocsNotify", FALSE), Flag("certGen", FALSE),
               Flag("certGovNotify", FALSE), Flag("docGenUpload", FALSE),
               Flag("evlSftpPush", FALSE), Flag("exportAnts", FALSE),
               Flag("exportEvl", FALSE), Flag("exportProhibition", FALSE),
               Flag("exportTestResults", FALSE), Flag("exportTfl", FALSE),
               Flag("putTestStation", FALSE), Flag("retroGen", FALSE),
               Flag("scheduledOperations", FALSE),
               Flag("syncTestResultInfo", FALSE),
               Flag("updateStoreTechRecords", FALSE),
               Flag("updateStoreTestResults", FALSE),
               Flag("updateTestStation", FALSE), Flag("updateTestVrm", FALSE)>>)>>,
      <<W("testFacilityDB"),
        JObj(<<Flag("enabled", TRUE), Flag("readAurora", FALSE),
               Flag("writeAurora", FALSE)>>)>>
    >>)

\* flag groups a remote configuration may hold, in the order of the defaults
RemoteGroups ==
    << <<W("welshTranslation"), JObj(<<Flag("enabled", FALSE)>>)>>,
       <<W("welshTranslation"),
         JObj(<<Flag("enabled", TRUE), Flag("translatePassTestResult", FALSE)>>)>>,
       <<W("automatedCt"), JObj(<<Flag("enabled", TRUE)>>)>>,
       <<W("specialistDefects"),
         JObj(<<Flag("enabled", TRUE),
                <<W("adasImNumbers"), JArr(<<JNum(29), JNum(99)>>)>> >>)>>,
       <<W("specialistDefects"),
         JObj(<< <<W("adasImNumbers"), JArr(<<JNum(7)>>)>> >>)>>,
       <<W("specialistDefects"),
         JObj(<< <<W("adasImNumbers"), JArr(<<>>)>> >>)>>,
       <<W("skipAutomatedProcesses"),
         JObj(<<Flag("enabled", TRUE), Flag("certGovNotify", TRUE)>>)>> >>

\* the groups with the indexes in chosen, in order
RECURSIVE pickGroups(_, _)
pickGroups(chosen, i) ==
    IF i > Len(RemoteGroups)
    THEN <<>>
    ELSE (IF i \in chosen THEN <<RemoteGroups[i]>> ELSE <<>>)
         \o pickGroups(chosen, i + 1)

\* what getFeatureFlags may resolve with: the empty configuration, and
\* configurations of up to MaxGroups groups, no group twice
RemoteConfigurations ==
    {JObj(pickGroups(chosen, 1)) :
        chosen \in {c \in SUBSET (1..Len(RemoteGroups)) :
                      /\ Cardinality(c) <= MaxGroups
                      /\ \A i, j \in c :
                            i # j => RemoteGroups[i][1] # RemoteGroups[j][1]}}

FlagsIdle ==
    /\ defaultFeatureFlags = DefaultFeatureFlags
    /\ flags = undefined
    /\ profile = undefined

(***************************************************************************)
(* transformReferences (the variant built on ts-json-schema-generator)     *)
(*                                                                         *)
(* A document is a JSON value: a string, a number, a boolean, null, an     *)
(* array or a plain object.  The units of a string are as fine as the      *)
(* pattern needs: '#', '/', 'definitions', 'components', 'schemas' and     *)
(* names.                                                                  *)
(***************************************************************************)
null == [typeof |-> "null"]

DEFINITIONS_POINTER == <<"#", "/", "definitions", "/">>
COMPONENTS_POINTER == <<"#", "/", "components", "/", "schemas", "/">>

\* s.replace(/pattern/g, replacement): every occurrence, left to right,
\* the next match sought after the end of the last one
RECURSIVE replaceAll(_, _, _)
replaceAll(s, pattern, replacement) ==
    LET i == indexOf(s, pattern)
    IN  IF i = 0 THEN s
        ELSE SubSeq(s, 1, i - 1) \o replacement
             \o replaceAll(SubSeq(s, i + Len(pattern), Len(s)), pattern, replacement)

\* transformed[key] = value on an object literal: the key '__proto__' is the
\* accessor of Object.prototype, the assignment sets the prototype (or does
\* nothing, for a primitive) and the object gets no entry of its own
assignProperty(entries, key, value) ==
    IF key = W("__proto__") THEN entries ELSE Put(entries, key, value)

RECURSIVE transformReferences(_)

\* the loop over Object.entries(obj), from entry i on
RECURSIVE transformLoop(_, _, _)
transformLoop(entries, i, transformed) ==
    IF i > Len(entries) THEN transformed
    ELSE transformLoop(entries, i + 1,
                       assignProperty(transformed, entries[i][1],
                                      transformReferences(entries[i][2])))

transformReferences(obj) ==
    IF obj = null \/ obj = undefined THEN obj
    ELSE IF obj.typeof = "string"
    THEN JStr(replaceAll(obj.v, DEFINITIONS_POINTER, COMPONENTS_POINTER))
    ELSE IF isObject(obj) /\ ~isPlainObject(obj)
    THEN JArr([i \in 1..Len(obj.v) |-> transformReferences(obj.v[i])])
    ELSE IF isObject(obj)
    THEN JObj(transformLoop(obj.v, 1, <<>>))
    ELSE obj

(***************************************************************************)
(* DynamoDb.fullScan and DynamoDb.recursiveFetch                           *)
(*                                                                         *)
(* A page is what client.send resolves with: Items (a page may have none)  *)
(* and LastEvaluatedKey (undefined on the last page).                      *)
(***************************************************************************)
\* most pages the table answers a call with
MaxPages == 3

EvaluatedKeys == {[id |-> W("k1")], [id |-> W("k2")]}

Pages ==
    [LastEvaluatedKey : {undefined} \cup EvaluatedKeys]
    \cup [Items : {<<>>, <<W("a")>>, <<W("b"), W("c")>>},
          LastEvaluatedKey : {undefined} \cup EvaluatedKeys]

\* the calls: fullScan(scanParams), recursiveFetch(command, inputParams);
\* the caller may give an ExclusiveStartKey of its own
ScanCalls ==
    [call : {"fullScan"}, command : {"ScanCommand"},
     ExclusiveStartKey : {undefined} \cup EvaluatedKeys]
    \cup
    [call : {"recursiveFetch"}, command : {"ScanCommand", "QueryCommand"},
     ExclusiveStartKey : {undefined} \cup EvaluatedKeys]

\* slip: if (data.Items) rows.unshift(...data.Items)
pushItems_unshift(collected, data) ==
    IF "Items" \notin DOMAIN data THEN collected ELSE data.Items \o collected

\* if (data.Items) rows.push(...data.Items)
pushItems(collected, data) ==
    IF "Items" \notin DOMAIN data THEN collected ELSE collected \o data.Items

ScanIdle ==
    /\ params = undefined
    /\ rows = <<>>
    /\ lastEvaluatedKey = undefined
    /\ sent = <<>>
    /\ pages = <<>>

(***************************************************************************)
(* The lambda handler registry and generate's lambda handler discovery     *)
(*                                                                         *)
(* A handler class is an object with an identity; its 'openapi:endpoints'  *)
(* metadata is what the LambdaAPI decorators of its methods pushed.  A     *)
(* handler module is what require runs: it registers classes in order and  *)
(* then either returns or throws.                                          *)
(***************************************************************************)
\* most registerLambdaHandler calls
MaxCalls == 4
\* most entries of src/functions
MaxDirs == 2

HandlerClasses == {[class |-> "GetUser"], [class |-> "PostUser"], [class |-> "Health"]}

\* Reflect.getMetadata('openapi:endpoints', handlerClass) || []
Endpoints(handlerClass) ==
    IF handlerClass.class = "GetUser"
    THEN <<[method |-> W("get"), path |-> W("/users"), handler |-> W("getUser")]>>
    ELSE IF handlerClass.class = "PostUser"
    THEN <<[method |-> W("post"), path |-> W("/users"), handler |-> W("postUser")]>>
    ELSE <<>>

\* slip: no test for an earlier registration
registerLambdaHandler_push(list, target) == Append(list, target)

\* if (!global.lambdaHandlers.some((h) => h === target)) push(target)
registerLambdaHandler(list, target) ==
    IF \E i \in 1..Len(list) : list[i] = target THEN list ELSE Append(list, target)

\* the class decorators of a module, applied in order
RECURSIVE registerAll(_, _)
registerAll(list, targets) ==
    IF targets = <<>> THEN list
    ELSE registerAll(registerLambdaHandler(list, Head(targets)), Tail(targets))

\* slip: the catch block is empty
logError_silent(log, message, name) == log

\* console.error(message, ...)
logError(log, message, name) == Append(log, [message |-> message, name |-> name])

\* the loop over the endpoints of one handler class, from endpoint i on
RECURSIVE endpointLoop(_, _, _)
endpointLoop(paths, endpoints, i) ==
    IF i > Len(endpoints) THEN paths
    ELSE LET endpoint == endpoints[i]
             pathItem == EntriesAt(paths, endpoint.path)
         IN  endpointLoop(Put(paths, endpoint.path,
                              Put(pathItem, endpoint.method,
                                  [operation |-> endpoint.handler])),
                          endpoints, i + 1)

\* generateLambdaOpenAPISpec(lambdaHandlers).paths
RECURSIVE generateLambdaOpenAPISpec(_, _, _)
generateLambdaOpenAPISpec(handlers, i, paths) ==
    IF i > Len(handlers) THEN paths
    ELSE generateLambdaOpenAPISpec(handlers, i + 1,
                                   endpointLoop(paths, Endpoints(handlers[i]), 1))

\* the loop that merges the lambda paths into mergedPaths
RECURSIVE mergePaths(_, _, _)
mergePaths(mergedPaths, lambdaPaths, i) ==
    IF i > Len(lambdaPaths) THEN mergedPaths
    ELSE LET path == lambdaPaths[i][1]
         IN  mergePaths(
                IF Has(mergedPaths, path)
                THEN Put(mergedPaths, path,
                         Spread(Get(mergedPaths, path), lambdaPaths[i][2]))
                ELSE Put(mergedPaths, path, lambdaPaths[i][2]),
                lambdaPaths, i + 1)

LambdaIdle ==
    /\ lambdaHandlers = <<>>
    /\ registrations = <<>>
    /\ handlerDirs = <<>>
    /\ handler = 0
    /\ lambdaHandlersRegistered = FALSE
    /\ errors = <<>>
    /\ imports = <<>>
    /\ finalSpec = undefined

(***************************************************************************)
(* Inputs                                                                  *)
(***************************************************************************)

\* the lexical units type expressions are drawn from
TypeAlphabet == {"string", "number", "boolean", "User", "[", "]", "|"}

RECURSIVE StringsUpTo(_, _)
StringsUpTo(alphabet, n) ==
    IF n <= 0 THEN {<<>>}
    ELSE LET shorter == StringsUpTo(alphabet, n - 1)
         IN  shorter \cup {Append(s, u) : s \in {t \in shorter : Len(t) = n - 1},
                                             u \in alphabet}

TypeExpressions == StringsUpTo(TypeAlphabet, MaxLen)

\* keys and values of the Definitions handed to dictToOpenAPI
FieldKeys == {W("x"), <<"x", "?">>, W("y"), <<"y", "?">>, W("enum")}

FieldTypes ==
    {W("string"), W("User"), <<"string", "[", "]">>,
     <<"string", " ", "|", " ", "undefined">>,
     <<"string", " ", "|", " ", "undefined", "[", "]">>,
     <<"User", " ", "|", " ", "string">>}

LiteralLists ==
    {<<>>, <<JStr(W("a")), JStr(W("b"))>>, <<JNum(1), JNum(2)>>,
     <<JBool(TRUE), JBool(FALSE)>>, <<JBool(TRUE), JStr(W("a"))>>,
     <<JNum(1), JBool(TRUE)>>}

FieldValues == {JStr(t) : t \in FieldTypes} \cup {JArr(l) : l \in LiteralLists}

\* the objects with at most n entries, each key once
RECURSIVE ObjectsUpTo(_, _, _)
ObjectsUpTo(keys, values, n) ==
    IF n = 0 THEN {<<>>}
    ELSE LET smaller == ObjectsUpTo(keys, values, n - 1)
         IN  smaller \cup
             {Append(o, <<k, v>>) :
                 o \in {p \in smaller : Len(p) = n - 1},
                 k \in keys, v \in values}

\* each key once
UniqueKeys(obj) == \A i, j \in 1..Len(obj) : obj[i][1] = obj[j][1] => i = j

\* declarations of a source file
EnumDeclaration(name, members) ==
    [kind |-> "EnumDeclaration", name |-> name, members |-> members]

EnumMember(name, initializer) == [name |-> name, initializer |-> initializer]

InterfaceDeclaration(name, heritage, members) ==
    [kind |-> "InterfaceDeclaration", name |-> name, heritage |-> heritage,
     members |-> members]

PropertySignature(name, questionToken, type) ==
    [name |-> name, questionToken |-> questionToken, type |-> type]

TypeAliasDeclaration(name, isUnion, types) ==
    [kind |-> "TypeAliasDeclaration", name |-> name, isUnion |-> isUnion,
     types |-> types]

VariableStatement(name, properties) ==
    [kind |-> "VariableStatement", name |-> name, properties |-> properties]

Paths == {W("models.ts")}

\* Declarations whose fields refer to each other: directly, as arrays, as
\* unions, in cycles, and through an enum whose value is a declared name.
ReferenceDeclarations ==
    {InterfaceDeclaration(W("A"), <<>>, <<PropertySignature(W("x"), FALSE, JStr(t))>>) :
        t \in {W("B"), <<"B", "[", "]">>, <<"B", " ", "|", " ", "undefined">>,
               <<"A", " ", "|", " ", "undefined">>, W("E")}}
    \cup
    {InterfaceDeclaration(W("B"), <<>>, <<PropertySignature(W("val"), q, JStr(t))>>) :
        q \in {FALSE},
        t \in {W("string"), W("C"), W("A"), <<"string", " ", "|", " ", "undefined">>}}
    \cup
    {InterfaceDeclaration(W("C"), <<>>,
        <<PropertySignature(W("val"), FALSE, JStr(W("string")))>>),
     EnumDeclaration(W("E"), <<EnumMember(W("V"), JStr(W("C")))>>),
     TypeAliasDeclaration(W("T"), TRUE,
        <<[isLiteral |-> TRUE, text |-> <<"'", "a", "'">>],
          [isLiteral |-> FALSE, text |-> W("B")]>>),
     VariableStatement(W("K"), <<W("p"), W("q")>>)}

\* Declarations that extend, re-declare and enumerate.
HeritageDeclarations ==
    {InterfaceDeclaration(W("Base"), <<>>,
        <<PropertySignature(W("x"), q, JStr(W("string"))),
          PropertySignature(W("y"), FALSE, JStr(W("boolean")))>>) : q \in BOOLEAN}
    \cup
    {InterfaceDeclaration(W("Sub"), <<h>>,
        <<PropertySignature(W("z"), FALSE, JStr(W("Role"))),
          PropertySignature(W("x"), q, JStr(W("number")))>>) :
        h \in {W("Base"), W("Missing")}, q \in BOOLEAN}
    \cup
    {EnumDeclaration(W("Role"), m) :
        m \in {<<>>,
               <<EnumMember(W("ADMIN"), JStr(W("admin"))),
                 EnumMember(W("USER"), JStr(W("user")))>>,
               <<EnumMember(W("ADMIN"), undefined),
                 EnumMember(W("USER"), JNum(1))>>}}
    \cup
    {TypeAliasDeclaration(W("Role"), TRUE,
        <<[isLiteral |-> TRUE, text |-> <<"\"", "one", "\"">>],
          [isLiteral |-> TRUE, text |-> <<"'", "two", "'">>]>>),
     VariableStatement(W("DecConst"), <<W("A"), W("B")>>),
     InterfaceDeclaration(W("Role"), <<>>,
        <<PropertySignature(W("z"), FALSE, JStr(W("string")))>>)}

\* schema sets handed to dereferenceArrays
SchemaNames == {W("Users"), W("User")}

RefStrings ==
    {W("User"), <<"User", "[", "]">>, <<"User", "[", "]", "[", "]">>,
     <<"#/components/schemas/", "User">>}

LeafNodes ==
    {[ref |-> r] : r \in RefStrings}
    \cup {[type |-> W("number")], [type |-> W("object")], [type |-> W("array")],
          [type |-> W("string"), enum |-> <<JStr(W("a"))>>]}

RECURSIVE NodesUpTo(_)
NodesUpTo(depth) ==
    IF depth <= 1 THEN LeafNodes
    ELSE LET inner == NodesUpTo(depth - 1)
         IN  LeafNodes
             \cup {[type |-> W("array"), items |-> n] : n \in inner}
             \cup {[type |-> W("object"), properties |-> << <<W("id"), n>> >>] :
                      n \in inner}
             \cup {[type |-> W("object"), properties |-> << <<W("id"), n>> >>,
                    required |-> <<W("id")>>] : n \in inner}

\* the heap a schema set lives in: every node and every properties object a
\* cell of its own, the set itself at the last address
RECURSIVE AllocNode(_, _), AllocEntries(_, _, _, _)
AllocNode(heap, node) ==
    IF "properties" \in DOMAIN node
    THEN LET h1 == AllocEntries(heap, node.properties, 1, <<>>)
         IN  Append(h1, [node EXCEPT !.properties = Len(h1)])
    ELSE IF "items" \in DOMAIN node
         THEN LET h1 == AllocNode(heap, node.items)
              IN  Append(h1, [node EXCEPT !.items = Len(h1)])
         ELSE Append(heap, node)

AllocEntries(heap, obj, i, entries) ==
    IF i > Len(obj) THEN Append(heap, [entries |-> entries])
    ELSE LET h1 == AllocNode(heap, obj[i][2])
         IN  AllocEntries(h1, obj, i + 1, Append(entries, <<obj[i][1], Len(h1)>>))

AllocSchemas(obj) ==
    LET heap == AllocEntries(<<>>, obj, 1, <<>>)
    IN  [heap |-> heap, addr |-> Len(heap)]

(***************************************************************************)
(* typeToSchemaObject called on its own                                    *)
(***************************************************************************)
PipelineIdle ==
    /\ pathToFile = <<>>
    /\ file = <<>>
    /\ interfaceName = undefined
    /\ cursor = 0
    /\ definitions = <<>>
    /\ referencedModels = {}
    /\ schemas = <<>>
    /\ result = undefined
    /\ prototype = CleanPrototype
    /\ AuthIdle
    /\ FlagsIdle
    /\ ScanIdle
    /\ LambdaIdle

PipelineUnchanged ==
    UNCHANGED <<pathToFile, file, interfaceName, cursor, definitions,
                referencedModels, schemas, result, prototype, authVars, flagVars,
                otherVars>>

InitType ==
    /\ pc = "typeToSchemaObject"
    /\ arg \in {JStr(s) : s \in TypeExpressions}
    /\ ret = undefined
    /\ PipelineIdle

CallTypeToSchemaObject ==
    /\ pc = "typeToSchemaObject"
    /\ ret' = typeToSchemaObject(arg)
    /\ pc' = "returned"
    /\ UNCHANGED arg
    /\ PipelineUnchanged

NextType == CallTypeToSchemaObject

SpecType == InitType /\ [][NextType]_vars

(***************************************************************************)
(* dictToOpenAPI called on its own                                         *)
(***************************************************************************)
InitDict ==
    /\ pc = "dictToOpenAPI"
    /\ arg \in {o \in ObjectsUpTo(FieldKeys, FieldValues, MaxFields) : UniqueKeys(o)}
    /\ ret = undefined
    /\ PipelineIdle

CallDictToOpenAPI ==
    /\ pc = "dictToOpenAPI"
    /\ ret' = dictToOpenAPI(arg)
    /\ pc' = "returned"
    /\ UNCHANGED arg
    /\ PipelineUnchanged

NextDict == CallDictToOpenAPI

SpecDict == InitDict /\ [][NextDict]_vars

(***************************************************************************)
(* dereferenceArrays called on its own                                     *)
(***************************************************************************)
InitDeref ==
    /\ pc = "dereferenceArrays"
    /\ arg \in {o \in ObjectsUpTo(SchemaNames, NodesUpTo(MaxDepth),
                                   Cardinality(SchemaNames)) : UniqueKeys(o)}
    /\ ret = undefined
    /\ PipelineIdle

CallDereferenceArrays ==
    /\ pc = "dereferenceArrays"
    /\ ret' = dereferenceArrays(arg)
    /\ pc' = "returned"
    /\ UNCHANGED arg
    /\ PipelineUnchanged

NextDeref == CallDereferenceArrays

SpecDeref == InitDeref /\ [][NextDeref]_vars

(***************************************************************************)
(* dereferenceArrays called on a schema set in the heap                    *)
(***************************************************************************)
InitHeap ==
    /\ pc = "dereferenceArraysHeap"
    /\ arg \in {AllocSchemas(o) :
                   o \in {p \in ObjectsUpTo(SchemaNames, NodesUpTo(MaxDepth - 1),
                                            Cardinality(SchemaNames)) : UniqueKeys(p)}}
    /\ ret = undefined
    /\ PipelineIdle

CallDereferenceArraysHeap ==
    /\ pc = "dereferenceArraysHeap"
    /\ ret' = dereferenceArraysHeap(arg.heap, arg.addr)
    /\ pc' = "returned"
    /\ UNCHANGED arg
    /\ PipelineUnchanged

NextHeap == CallDereferenceArraysHeap

SpecHeap == InitHeap /\ [][NextHeap]_vars

(***************************************************************************)
(* generateMany and generateByName                                         *)
(***************************************************************************)
InitPipeline(declarations, names) ==
    /\ pc = "visitNode"
    /\ pathToFile \in Paths
    /\ file \in StringsUpTo(declarations, MaxDecls)
    /\ interfaceName \in {undefined} \cup {JStr(n) : n \in names}
    /\ cursor = 1
    /\ definitions = <<>>
    /\ referencedModels = {}
    /\ schemas = <<>>
    /\ result = undefined
    /\ arg = undefined
    /\ ret = undefined
    /\ prototype = CleanPrototype
    /\ AuthIdle
    /\ FlagsIdle
    /\ ScanIdle
    /\ LambdaIdle

Init == InitPipeline(ReferenceDeclarations, {W("A"), W("toString")})

InitHeritage == InitPipeline(HeritageDeclarations, {W("Sub")})

Visiting(kind) ==
    /\ pc = "visitNode"
    /\ cursor <= Len(file)
    /\ file[cursor].kind = kind

Visited(definition) ==
    /\ definitions' = definition
    /\ cursor' = cursor + 1
    /\ UNCHANGED <<pc, pathToFile, file, interfaceName, referencedModels,
                   schemas, result, arg, ret, prototype, authVars, flagVars,
                otherVars>>

VisitEnumDeclaration ==
    /\ Visiting("EnumDeclaration")
    /\ Visited(visitEnum(definitions, file[cursor]))

VisitClassOrInterfaceDeclaration ==
    /\ Visiting("InterfaceDeclaration")
    /\ Visited(visitClassOrInterface(definitions, file[cursor]))

VisitTypeAliasDeclaration ==
    /\ Visiting("TypeAliasDeclaration")
    /\ Visited(visitTypeAlias(definitions, file[cursor]))

VisitVariableStatement ==
    /\ Visiting("VariableStatement")
    /\ Visited(visitVariableStatement(definitions, file[cursor]))

\* interfaceName && !definitions[interfaceName]
notFound ==
    /\ truthy(interfaceName)
    /\ ~Defined(definitions, interfaceName.v)

\* `Interface ${interfaceName} not found in ${filePath}`
notFoundError(name, filePath) ==
    [threw |-> "Error",
     message |-> <<"Interface ">> \o name \o <<" not found in ">> \o filePath]

ExtractDefinitionsThrow ==
    /\ pc = "visitNode"
    /\ cursor > Len(file)
    /\ notFound
    /\ result' = notFoundError(interfaceName.v, pathToFile)
    /\ pc' = "rejected"
    /\ UNCHANGED <<pathToFile, file, interfaceName, cursor, definitions,
                   referencedModels, schemas, arg, ret, prototype, authVars, flagVars,
                otherVars>>

ExtractDefinitionsReturn ==
    /\ pc = "visitNode"
    /\ cursor > Len(file)
    /\ ~notFound
    /\ pc' = IF interfaceName = undefined THEN "generateMany" ELSE "generateByName"
    /\ UNCHANGED <<pathToFile, file, interfaceName, cursor, definitions,
                   referencedModels, schemas, result, arg, ret, prototype, authVars, flagVars,
                otherVars>>

FindReferencedModels ==
    /\ pc = "generateByName"
    /\ LET found == findReferencedModels(interfaceName.v, definitions)
       IN  IF found.overflow
           THEN /\ result' = [threw |-> "RangeError",
                              message |-> <<"Maximum call stack size exceeded">>]
                /\ pc' = "rejected"
                /\ UNCHANGED referencedModels
           ELSE /\ referencedModels' = found.refs
                /\ pc' = "filter"
                /\ UNCHANGED result
    /\ UNCHANGED <<pathToFile, file, interfaceName, cursor, definitions,
                   schemas, arg, ret, prototype, authVars, flagVars,
                otherVars>>

\* Object.entries(definitions).map(([name, def]) => [name, dictToOpenAPI(def)])
mapDictToOpenAPI(defs) ==
    [i \in 1..Len(defs) |-> <<defs[i][1], dictToOpenAPI(defs[i][2])>>]

\* .filter(([name]) => typeof name === 'string' && referencedModels.has(name))
filterReferenced(entries, referenced) ==
    SelectSeq(entries, LAMBDA entry : entry[1] \in referenced)

GenerateByNameSchemas ==
    /\ pc = "filter"
    /\ schemas' = filterReferenced(mapDictToOpenAPI(definitions), referencedModels)
    /\ pc' = "dereferenceArrays"
    /\ UNCHANGED <<pathToFile, file, interfaceName, cursor, definitions,
                   referencedModels, result, arg, ret, prototype, authVars, flagVars,
                otherVars>>

GenerateManySchemas ==
    /\ pc = "generateMany"
    /\ schemas' = mapDictToOpenAPI(definitions)
    /\ pc' = "dereferenceArrays"
    /\ UNCHANGED <<pathToFile, file, interfaceName, cursor, definitions,
                   referencedModels, result, arg, ret, prototype, authVars, flagVars,
                otherVars>>

DereferenceArrays ==
    /\ pc = "dereferenceArrays"
    /\ result' = [resolved |-> dereferenceArrays(schemas)]
    /\ pc' = "resolved"
    /\ UNCHANGED <<pathToFile, file, interfaceName, cursor, definitions,
                   referencedModels, schemas, arg, ret, prototype, authVars, flagVars,
                otherVars>>

Next ==
    \/ VisitEnumDeclaration
    \/ VisitClassOrInterfaceDeclaration
    \/ VisitTypeAliasDeclaration
    \/ VisitVariableStatement
    \/ ExtractDefinitionsThrow
    \/ ExtractDefinitionsReturn
    \/ FindReferencedModels
    \/ GenerateByNameSchemas
    \/ GenerateManySchemas
    \/ DereferenceArrays

Spec == Init /\ [][Next]_vars

SpecHeritage == InitHeritage /\ [][Next]_vars

(***************************************************************************)
(* One whole call of generateMany or generateByName in a process whose     *)
(* Object.prototype members may carry properties.                          *)
(*                                                                         *)
(* The body of both functions holds no await: a call runs from its first   *)
(* statement to its return before anything else does.  definitions is an   *)
(* object literal, so definition[name] for a name of ObjectPrototype that  *)
(* has no entry of its own reads the member: a function object every       *)
(* object literal of the process shares.  ext.aliased holds the names whose *)
(* own entry is that function.  Declared names are never '__proto__'.       *)
(***************************************************************************)
\* Object.entries(definition[name] ?? {})
entriesOf(ext, name) ==
    IF Has(ext.definition, name) /\ name \notin ext.aliased
    THEN Get(ext.definition, name)
    ELSE IF name \in ObjectPrototype THEN ext.prototype[name] ELSE <<>>

\* definition[name] = { ... }
assign(ext, name, object) ==
    [ext EXCEPT !.definition = Put(@, name, object), !.aliased = @ \ {name}]

\* definition[name] = definition[name] ?? {}
keep(ext, name) ==
    IF Has(ext.definition, name) THEN ext
    ELSE IF name \in ObjectPrototype
         THEN [ext EXCEPT !.definition = Put(@, name, <<>>),
                          !.aliased = @ \cup {name}]
         ELSE [ext EXCEPT !.definition = Put(@, name, <<>>)]

\* definition[name][propertyName] = text
write(ext, name, propertyName, text) ==
    IF name \in ext.aliased
    THEN [ext EXCEPT !.prototype[name] = Put(@, propertyName, text)]
    ELSE [ext EXCEPT !.definition =
                        Put(@, name, Put(Get(@, name), propertyName, text))]

\* the loops over node.heritageClauses and their types, from base i on
RECURSIVE extendFrom(_, _, _, _)
extendFrom(ext, name, heritage, i) ==
    IF i > Len(heritage) THEN ext
    ELSE IF Defined(ext.definition, heritage[i])
         THEN extendFrom(assign(ext, name,
                                Spread(entriesOf(ext, heritage[i]),
                                       entriesOf(ext, name))),
                         name, heritage, i + 1)
         ELSE extendFrom(ext, name, heritage, i + 1)

\* the loop over node.members, from member i on
RECURSIVE writeMembers(_, _, _, _)
writeMembers(ext, name, members, i) ==
    IF i > Len(members) THEN ext
    ELSE IF members[i].type # undefined
         THEN writeMembers(
                  write(ext, name,
                        members[i].name \o
                        (IF members[i].questionToken THEN OPTIONAL_MARKER ELSE <<>>),
                        members[i].type),
                  name, members, i + 1)
         ELSE writeMembers(ext, name, members, i + 1)

\* visitNode on one declaration
visitDeclaration(ext, node) ==
    CASE node.kind = "EnumDeclaration" ->
            assign(ext, node.name, enumOf(enumMemberValues(node.members)))
      [] node.kind = "InterfaceDeclaration" ->
            writeMembers(extendFrom(keep(ext, node.name), node.name, node.heritage, 1),
                         node.name, node.members, 1)
      [] node.kind = "TypeAliasDeclaration" ->
            IF node.isUnion
            THEN assign(keep(ext, node.name), node.name,
                        enumOf([i \in 1..Len(node.types) |->
                                   IF node.types[i].isLiteral
                                   THEN JStr(stripQuotes(node.types[i].text))
                                   ELSE JStr(node.types[i].text)]))
            ELSE keep(ext, node.name)
      [] node.kind = "VariableStatement" ->
            IF node.name # <<>>
            THEN assign(ext, node.name,
                        enumOf([i \in 1..Len(node.properties) |->
                                   JStr(node.properties[i])]))
            ELSE ext

\* visitNode on the source file: its declarations from i on
RECURSIVE visitFrom(_, _, _)
visitFrom(ext, declarations, i) ==
    IF i > Len(declarations) THEN ext
    ELSE visitFrom(visitDeclaration(ext, declarations[i]), declarations, i + 1)

\* Object.entries(definitions) with the entries of each value
ownEntries(ext) ==
    [i \in 1..Len(ext.definition) |->
        <<ext.definition[i][1], entriesOf(ext, ext.definition[i][1])>>]

\* what definitions[key] reads for every key: the own entries, and the
\* members of Object.prototype that no own entry hides
RECURSIVE inherited(_, _, _)
inherited(defs, members, proto) ==
    IF members = {} THEN defs
    ELSE LET member == CHOOSE m \in members : TRUE
         IN  inherited(IF Has(defs, member) THEN defs
                       ELSE Append(defs, <<member, proto[member]>>),
                       members \ {member}, proto)

\* generateMany(path) when name is undefined, generateByName(path, name)
\* otherwise: what the call settles with, and Object.prototype after it
generateCall(path, declarations, name, proto) ==
    LET ext == visitFrom([definition |-> <<>>, aliased |-> {}, prototype |-> proto],
                         declarations, 1)
        defs == ownEntries(ext)
        found == findReferencedModels(name.v,
                                      inherited(defs, ObjectPrototype, ext.prototype))
        outcome ==
            IF truthy(name) /\ ~Defined(defs, name.v)
            THEN notFoundError(name.v, path)
            ELSE IF name = undefined
                 THEN [resolved |-> dereferenceArrays(mapDictToOpenAPI(defs))]
                 ELSE IF found.overflow
                      THEN [threw |-> "RangeError",
                            message |-> <<"Maximum call stack size exceeded">>]
                      ELSE [resolved |->
                               dereferenceArrays(
                                   filterReferenced(mapDictToOpenAPI(defs),
                                                    found.refs))]
    IN  [result |-> outcome, prototype |-> ext.prototype]

(***************************************************************************)
(* generate: generateNamedSchemas and generateUnnamedSchemas               *)
(*                                                                         *)
(* arg is pathsToInterfaces, ret[i] what the call for arg[i] settled with. *)
(* generateNamedSchemas maps generateByName over the paths that have an    *)
(* interfaceName, then generateUnnamedSchemas maps generateMany over the   *)
(* others; each call has run to its end when map goes on to the next.      *)
(***************************************************************************)
\* most entries of pathsToInterfaces
MaxPaths == 2

\* the source files on disk
SourceFiles ==
    [models |-> <<InterfaceDeclaration(W("A"), <<>>,
                     <<PropertySignature(W("x"), FALSE, JStr(W("string")))>>)>>,
     printable |-> <<InterfaceDeclaration(W("toString"), <<>>,
                        <<PropertySignature(W("a"), FALSE, JStr(W("string")))>>)>>,
     format |-> <<InterfaceDeclaration(W("A"), <<>>,
                     <<PropertySignature(W("x"), TRUE, JStr(W("number")))>>),
                  InterfaceDeclaration(W("toString"), <<>>,
                     <<PropertySignature(W("b"), FALSE, JStr(W("A")))>>)>>,
     shadowed |-> <<EnumDeclaration(W("toString"), <<EnumMember(W("V"), undefined)>>),
                    InterfaceDeclaration(W("toString"), <<>>,
                       <<PropertySignature(W("c"), FALSE, JStr(W("string")))>>)>>,
     extended |-> <<InterfaceDeclaration(W("A"), <<W("toString")>>,
                       <<PropertySignature(W("y"), FALSE, JStr(W("string")))>>)>>,
     aliases |-> <<TypeAliasDeclaration(W("valueOf"), FALSE, <<>>),
                   VariableStatement(W("K"), <<W("p")>>)>>]

SchemaPaths ==
    {[path |-> p, interfaceName |-> n] :
        p \in DOMAIN SourceFiles,
        n \in {undefined, JStr(W("A")), JStr(W("toString"))}}

RECURSIVE PathsUpTo(_)
PathsUpTo(n) ==
    IF n = 0 THEN {<<>>}
    ELSE LET shorter == PathsUpTo(n - 1)
         IN  shorter \cup {Append(s, p) : s \in {t \in shorter : Len(t) = n - 1},
                                           p \in SchemaPaths}

InitGenerate ==
    /\ pc = "generate"
    /\ arg \in PathsUpTo(MaxPaths)
    /\ ret = [i \in 1..Len(arg) |-> undefined]
    /\ pathToFile = <<>>
    /\ file = <<>>
    /\ interfaceName = undefined
    /\ cursor = 0
    /\ definitions = <<>>
    /\ referencedModels = {}
    /\ schemas = <<>>
    /\ result = undefined
    /\ prototype = CleanPrototype
    /\ AuthIdle
    /\ FlagsIdle
    /\ ScanIdle
    /\ LambdaIdle

\* the paths map has not called yet
Pending(named) ==
    {i \in 1..Len(arg) : ret[i] = undefined /\ truthy(arg[i].interfaceName) = named}

Settle(i) ==
    LET call == generateCall(W(arg[i].path), SourceFiles[arg[i].path],
                             arg[i].interfaceName, prototype)
    IN  /\ ret' = [ret EXCEPT ![i] = call.result]
        /\ prototype' = call.prototype
        /\ UNCHANGED <<pc, pathToFile, file, interfaceName, cursor, definitions,
                       referencedModels, schemas, result, arg, authVars, flagVars,
                otherVars>>

\* generateNamedSchemas: the next generateByName
CallGenerateByName ==
    /\ pc = "generate"
    /\ \E i \in Pending(TRUE) :
          /\ \A j \in Pending(TRUE) : i <= j
          /\ Settle(i)

\* generateUnnamedSchemas: the next generateMany
CallGenerateMany ==
    /\ pc = "generate"
    /\ Pending(TRUE) = {}
    /\ \E i \in Pending(FALSE) :
          /\ \A j \in Pending(FALSE) : i <= j
          /\ Settle(i)

NextGenerate == CallGenerateByName \/ CallGenerateMany

SpecGenerate == InitGenerate /\ [][NextGenerate]_vars

(***************************************************************************)
(* getAccessToken, called on any instance at any time                      *)
(***************************************************************************)
InitAuth ==
    /\ pc = "getAccessToken"
    /\ arg = undefined
    /\ ret = undefined
    /\ PipelineIdle

\* time passes
Tick ==
    /\ clock < MaxClock
    /\ clock' = clock + 1
    /\ UNCHANGED <<generatorVars, flagVars, otherVars, accessToken, pending, settled>>

\* getAccessToken up to its await: with a token that has not expired the
\* call returns at once, otherwise it posts to the token endpoint
GetAccessToken(client) ==
    IF mustFetch(accessToken, clock)
    THEN /\ Len(pending) < MaxPending
         /\ pending' = Append(pending, client)
         /\ UNCHANGED <<generatorVars, flagVars, otherVars, accessToken, clock, settled>>
    ELSE /\ settled' = [client |-> client, fetched |-> FALSE,
                        resolved |-> accessToken]
         /\ UNCHANGED <<generatorVars, flagVars, otherVars, accessToken, clock, pending>>

\* the rest of the pending call k once the token endpoint has answered
FetchClientCredentials(k, response) ==
    /\ k \in 1..Len(pending)
    /\ pending' = SubSeq(pending, 1, k - 1) \o SubSeq(pending, k + 1, Len(pending))
    /\ IF response.ok
       THEN /\ accessToken' = response.access_token
            /\ settled' = [client |-> pending[k], fetched |-> TRUE,
                           resolved |-> accessToken']
       ELSE /\ settled' = [client |-> pending[k], fetched |-> TRUE,
                           threw |-> <<"Failed to fetch client credentials">>]
            /\ UNCHANGED accessToken
    /\ UNCHANGED <<generatorVars, flagVars, otherVars, clock>>

\* the endpoint issues tokens to the client that asked
NextAuth ==
    \/ Tick
    \/ \E client \in Clients : GetAccessToken(client)
    \/ \E k \in 1..Len(pending), response \in Responses :
          /\ response.ok /\ response.access_token # undefined
                => response.access_token.client = pending[k]
          /\ FetchClientCredentials(k, response)

SpecAuth == InitAuth /\ [][NextAuth]_vars

(***************************************************************************)
(* getProfile, called any number of times in one process                   *)
(***************************************************************************)
InitFlags ==
    /\ pc = "getProfile"
    /\ arg = undefined
    /\ ret = undefined
    /\ PipelineIdle

\* getProfile with the remote configuration getFeatureFlags resolved with:
\* merge writes into defaultFeatureFlags and returns that same object
GetProfile(remote) ==
    /\ flags' = remote
    /\ defaultFeatureFlags' = merge(defaultFeatureFlags, remote)
    /\ profile' = defaultFeatureFlags'
    /\ UNCHANGED <<generatorVars, authVars, otherVars>>

NextFlags == \E remote \in RemoteConfigurations : GetProfile(remote)

SpecFlags == InitFlags /\ [][NextFlags]_vars

(***************************************************************************)
(* transformReferences, as generate calls it on the assembled document     *)
(***************************************************************************)
\* most entries of the document
MaxEntries == 2

PointerAlphabet == {"#", "/", "definitions", "User"}

\* strings of a document: a name, pointers of both kinds, two pointers in one
PointerTexts ==
    {W("User"),
     DEFINITIONS_POINTER \o W("User"),
     COMPONENTS_POINTER \o W("User"),
     DEFINITIONS_POINTER \o W("User") \o <<" ">> \o DEFINITIONS_POINTER \o W("Role")}

DocumentKeys == {W("$ref"), W("User"), W("__proto__")}

DocumentLeaves == {JStr(s) : s \in PointerTexts} \cup {JNum(1), null}

DocumentValues ==
    DocumentLeaves
    \cup {JArr(<<>>)}
    \cup {JArr(<<leaf>>) : leaf \in DocumentLeaves}
    \cup {JArr(<<JBool(TRUE), leaf>>) : leaf \in DocumentLeaves}
    \cup {JObj(o) : o \in ObjectsUpTo(DocumentKeys, DocumentLeaves, 1)}

\* what generate may have assembled: an object of up to MaxEntries entries,
\* each key once (JSON.parse and spread keep an own key '__proto__'); and,
\* for the replacement itself, every string of up to MaxLen units
Documents ==
    {JObj(o) : o \in {p \in ObjectsUpTo(DocumentKeys, DocumentValues, MaxEntries) :
                        UniqueKeys(p)}}
    \cup {JStr(s) : s \in StringsUpTo(PointerAlphabet, MaxLen)}

InitTransform ==
    /\ pc = "transformReferences"
    /\ arg \in Documents
    /\ ret = undefined
    /\ PipelineIdle

CallTransformReferences ==
    /\ pc = "transformReferences"
    /\ ret' = transformReferences(arg)
    /\ pc' = "returned"
    /\ UNCHANGED arg
    /\ PipelineUnchanged

NextTransform == CallTransformReferences

SpecTransform == InitTransform /\ [][NextTransform]_vars

(***************************************************************************)
(* One call of fullScan or recursiveFetch against a table that answers     *)
(* with at most MaxPages pages                                             *)
(***************************************************************************)
InitScan ==
    /\ pc = "scan"
    /\ arg \in ScanCalls
    /\ ret = undefined
    /\ PipelineIdle

\* the call up to its first await: params is { ExclusiveStartKey: undefined,
\* ...scanParams } and the first command is sent
SendFirst ==
    /\ pc = "scan"
    /\ params' = [ExclusiveStartKey |-> arg.ExclusiveStartKey]
    /\ sent' = <<[command |-> arg.command,
                  ExclusiveStartKey |-> arg.ExclusiveStartKey]>>
    /\ pc' = "send"
    /\ UNCHANGED <<pathToFile, file, interfaceName, cursor, definitions,
                   referencedModels, schemas, result, arg, ret, prototype,
                   authVars, flagVars, rows, lastEvaluatedKey, pages, lambdaVars>>

\* the rest of one turn of the loop once client.send has resolved with data:
\* with a LastEvaluatedKey the next command is sent, without one the call
\* returns rows
Receive(data) ==
    /\ pc = "send"
    /\ pages' = Append(pages, data)
    /\ rows' = pushItems(rows, data)
    /\ lastEvaluatedKey' = data.LastEvaluatedKey
    /\ params' = [params EXCEPT !.ExclusiveStartKey = data.LastEvaluatedKey]
    /\ IF data.LastEvaluatedKey # undefined
       THEN /\ sent' = Append(sent, [command |-> arg.command,
                                     ExclusiveStartKey |-> params'.ExclusiveStartKey])
            /\ UNCHANGED <<pc, ret>>
       ELSE /\ pc' = "returned"
            /\ ret' = rows'
            /\ UNCHANGED sent
    /\ UNCHANGED <<pathToFile, file, interfaceName, cursor, definitions,
                   referencedModels, schemas, result, arg, prototype,
                   authVars, flagVars, lambdaVars>>

\* the table's last page comes with page MaxPages at the latest
NextScan ==
    \/ SendFirst
    \/ \E data \in Pages :
          /\ Len(pages) + 1 >= MaxPages => data.LastEvaluatedKey = undefined
          /\ Receive(data)

SpecScan == InitScan /\ [][NextScan]_vars

(***************************************************************************)
(* registerLambdaHandler, called any number of times in one process        *)
(***************************************************************************)
InitRegister ==
    /\ pc = "registerLambdaHandler"
    /\ arg = undefined
    /\ ret = undefined
    /\ PipelineIdle

RegisterLambdaHandler(target) ==
    /\ pc = "registerLambdaHandler"
    /\ Len(registrations) < MaxCalls
    /\ arg' = target
    /\ lambdaHandlers' = registerLambdaHandler(lambdaHandlers, target)
    /\ registrations' = Append(registrations, target)
    /\ ret' = target
    /\ UNCHANGED <<pc, pathToFile, file, interfaceName, cursor, definitions,
                   referencedModels, schemas, result, prototype, authVars,
                   flagVars, scanVars, handlerDirs, handler,
                   lambdaHandlersRegistered, errors, imports, finalSpec>>

NextRegister == \E target \in HandlerClasses : RegisterLambdaHandler(target)

SpecRegister == InitRegister /\ [][NextRegister]_vars

(***************************************************************************)
(* generate from the assembled schemas and proxied paths on: the discovery *)
(* of lambda handlers under src/functions and the lambda paths             *)
(***************************************************************************)
\* what require(handlerPath) runs
HandlerModules ==
    [registers : {<<>>, <<[class |-> "GetUser"]>>, <<[class |-> "PostUser"]>>,
                  <<[class |-> "GetUser"], [class |-> "Health"]>>},
     throws : BOOLEAN]

\* an entry of src/functions: a file, or a directory with its index module
Dirents ==
    {[isDirectory |-> FALSE]}
    \cup {[isDirectory |-> TRUE, module |-> m] : m \in HandlerModules}

\* the entries readdir resolves with; the name of an entry is its position
DirentsUpTo(n) ==
    UNION {[1..k -> Dirents] : k \in 0..n}

\* src/functions: missing, unreadable, or a list of entries
FunctionsDirs ==
    {[exists |-> FALSE], [exists |-> TRUE, readable |-> FALSE]}
    \cup {[exists |-> TRUE, readable |-> TRUE,
           entries |-> [i \in 1..Len(e) |-> [name |-> i] @@ e[i]]] :
             e \in DirentsUpTo(MaxDirs)}

\* finalSpec.paths after the proxied APIs
ProxiedPaths ==
    {<<>>, << <<W("/users"), << <<W("get"), [operation |-> W("proxied")]>> >> >> >>}

InitLambda ==
    /\ pc = "generate"
    /\ arg \in [functionsDir : FunctionsDirs, paths : ProxiedPaths]
    /\ ret = undefined
    /\ PipelineIdle

GeneratorUnchanged ==
    UNCHANGED <<pathToFile, file, interfaceName, cursor, definitions,
                referencedModels, schemas, arg, ret, prototype, authVars,
                flagVars, scanVars>>

\* generate up to `await fs.access(functionsDir)`
AssembleSchemas ==
    /\ pc = "generate"
    /\ finalSpec' = [paths |-> arg.paths]
    /\ pc' = "access"
    /\ UNCHANGED <<result, lambdaHandlers, registrations, handlerDirs, handler,
                   lambdaHandlersRegistered, errors, imports>>
    /\ GeneratorUnchanged

\* dirExists: with a directory readdir is awaited, without one the lambda
\* handlers are skipped
Access ==
    /\ pc = "access"
    /\ pc' = IF arg.functionsDir.exists THEN "readdir" ELSE "lambdaSpec"
    /\ UNCHANGED <<result, lambdaHandlers, registrations, handlerDirs, handler,
                   lambdaHandlersRegistered, errors, imports, finalSpec>>
    /\ GeneratorUnchanged

\* readdir resolved or rejected: the outer catch logs a rejection
Readdir ==
    /\ pc = "readdir"
    /\ IF arg.functionsDir.readable
       THEN /\ handlerDirs' = SelectSeq(arg.functionsDir.entries,
                                        LAMBDA h : h.isDirectory)
            /\ handler' = 1
            /\ pc' = "import"
            /\ UNCHANGED errors
       ELSE /\ errors' = logError(errors, "Error processing Lambda functions:", 0)
            /\ pc' = "lambdaSpec"
            /\ UNCHANGED <<handlerDirs, handler>>
    /\ UNCHANGED <<result, lambdaHandlers, registrations,
                   lambdaHandlersRegistered, imports, finalSpec>>
    /\ GeneratorUnchanged

\* one turn of the loop over handlerDirs: require runs the module, which
\* registers its classes and may throw
ImportHandler ==
    /\ pc = "import"
    /\ handler <= Len(handlerDirs)
    /\ LET dir == handlerDirs[handler]
       IN  /\ imports' = Append(imports, dir.name)
           /\ lambdaHandlers' = registerAll(lambdaHandlers, dir.module.registers)
           /\ registrations' = registrations \o dir.module.registers
           /\ IF dir.module.throws
              THEN /\ errors' = logError(errors, "Error importing handler", dir.name)
                   /\ UNCHANGED lambdaHandlersRegistered
              ELSE /\ lambdaHandlersRegistered' = TRUE
                   /\ UNCHANGED errors
    /\ handler' = handler + 1
    /\ UNCHANGED <<pc, result, handlerDirs, finalSpec>>
    /\ GeneratorUnchanged

ImportsDone ==
    /\ pc = "import"
    /\ handler > Len(handlerDirs)
    /\ pc' = "lambdaSpec"
    /\ UNCHANGED <<result, lambdaHandlers, registrations, handlerDirs, handler,
                   lambdaHandlersRegistered, errors, imports, finalSpec>>
    /\ GeneratorUnchanged

\* the lambda paths are merged in if an import succeeded and a handler is
\* registered; generate returns finalSpec
LambdaSpec ==
    /\ pc = "lambdaSpec"
    /\ finalSpec' =
          IF lambdaHandlersRegistered /\ Len(lambdaHandlers) > 0
          THEN [paths |-> mergePaths(finalSpec.paths,
                                     generateLambdaOpenAPISpec(lambdaHandlers, 1, <<>>),
                                     1)]
          ELSE finalSpec
    /\ result' = [resolved |-> finalSpec']
    /\ pc' = "resolved"
    /\ UNCHANGED <<lambdaHandlers, registrations, handlerDirs, handler,
                   lambdaHandlersRegistered, errors, imports>>
    /\ GeneratorUnchanged

NextLambda ==
    \/ AssembleSchemas
    \/ Access
    \/ Readdir
    \/ ImportHandler
    \/ ImportsDone
    \/ LambdaSpec

SpecLambda == InitLambda /\ [][NextLambda]_vars

(***************************************************************************)
(* Properties                                                              *)
(***************************************************************************)
KeySet(obj) == {obj[i][1] : i \in 1..Len(obj)}

\* the names a node refers to, at any depth of properties and items
RECURSIVE RefNames(_)
RefNames(node) ==
    (IF "ref" \in DOMAIN node /\ node.ref # <<>> /\ Head(node.ref) = "#/components/schemas/"
     THEN {Tail(node.ref)} ELSE {})
    \cup
    (IF "properties" \in DOMAIN node
     THEN UNION {RefNames(node.properties[i][2]) : i \in 1..Len(node.properties)}
     ELSE {})
    \cup
    (IF "items" \in DOMAIN node THEN RefNames(node.items) ELSE {})

\* the declared names that the schema built for a declared name refers to
ReferredBy(name) ==
    {m \in KeySet(definitions) : m \in RefNames(dictToOpenAPI(Get(definitions, name)))}

\* the declared names reachable from a set of declared names
RECURSIVE ReachableFrom(_)
ReachableFrom(names) ==
    LET more == names \cup UNION {ReferredBy(n) : n \in names}
    IN  IF more = names THEN names ELSE ReachableFrom(more)

ByNameResolved == pc = "resolved" /\ interfaceName # undefined

\* C1: the keys of the schema set generateByName returns are exactly the
\* root name and the names of the definitions that field types reference
\* from it, directly or through other definitions.
C1_KeysAreReachableSet ==
    ByNameResolved =>
        KeySet(result.resolved) = ReachableFrom({interfaceName.v})

\* C2: every reference inside a node of the schema set generateByName
\* returns, in a property or inside array items at any depth, names a schema
\* of the same set, unless the source file does not define that name.
C2_ClosureComplete ==
    ByNameResolved =>
        \A i \in 1..Len(result.resolved) :
            \A name \in RefNames(result.resolved[i][2]) :
                name \in KeySet(definitions) => name \in KeySet(result.resolved)

\* C3: when a name is given and the walk of the whole file has left no
\* definition under it, the call fails with an error whose message holds
\* the name and the path, and no schema set is returned.
C3_MissingNameFails ==
    (/\ ~(pc = "visitNode" /\ cursor <= Len(file))
     /\ interfaceName # undefined
     /\ ~Has(definitions, interfaceName.v))
    => \/ pc = "visitNode"
       \/ /\ pc = "rejected"
          /\ result.threw = "Error"
          /\ includes(result.message, interfaceName.v)
          /\ includes(result.message, pathToFile)
          /\ schemas = <<>>

RequiredOf(node) == IF "required" \in DOMAIN node THEN node.required ELSE <<>>

IsObjectNode(node) == DOMAIN node \subseteq {"type", "properties", "required"}
                      /\ "properties" \in DOMAIN node

Marked(key) == key # <<>> /\ key[Len(key)] = "?"

Unmarked(key) == ~Marked(key)

Structured(def) == \A i \in 1..Len(def) : def[i][2].typeof = "string"

C5_OptionalFieldsNotRequired ==
    (pc = "dereferenceArrays" /\ interfaceName = undefined) =>
        \A d \in 1..Len(definitions) :
            LET def == definitions[d][2]
                node == schemas[d][2]
            IN  Structured(def) =>
                  /\ \A i \in 1..Len(def) :
                        Marked(def[i][1]) =>
                          LET name == SubSeq(def[i][1], 1, Len(def[i][1]) - 1)
                          IN  /\ Has(node.properties, name)
                              /\ \A j \in 1..Len(RequiredOf(node)) :
                                    RequiredOf(node)[j] # name
                  /\ (\A i \in 1..Len(def) : Marked(def[i][1]))
                        => "required" \notin DOMAIN node

\* C6: typeToSchemaObject returns { type: p } for exactly 'string', 'number'
\* and 'boolean', a reference to the whole expression for every other
\* expression that does not end in '[]', and a node for every input.
C6_PrimitiveOrReference ==
    pc = "returned" =>
        /\ ret # undefined
        /\ ("type" \in DOMAIN ret) # ("ref" \in DOMAIN ret)
        /\ arg.v \in {<<"string">>, <<"number">>, <<"boolean">>} => ret = [type |-> arg.v]
        /\ (/\ arg.v \notin {<<"string">>, <<"number">>, <<"boolean">>}
            /\ ~(Len(arg.v) >= 2 /\ arg.v[Len(arg.v) - 1] = "[" /\ arg.v[Len(arg.v)] = "]"))
           => ret = [ref |-> <<"#/components/schemas/">> \o arg.v]

C6_Witness ==
    /\ pc = "returned"
    /\ arg.v = <<"User", "|", "boolean">>
    /\ ret = [ref |-> <<"#/components/schemas/", "User", "|", "boolean">>]

RECURSIVE Markers(_)
Markers(n) == IF n = 0 THEN <<>> ELSE <<"[", "]">> \o Markers(n - 1)

RECURSIVE ArrayDepth(_)
ArrayDepth(node) ==
    IF "items" \in DOMAIN node /\ node.type = <<"array">>
    THEN 1 + ArrayDepth(node.items) ELSE 0

RECURSIVE Innermost(_)
Innermost(node) == IF "items" \in DOMAIN node THEN Innermost(node.items) ELSE node

\* C7: a leaf followed by N >= 1 trailing '[]' markers becomes N nested array
\* nodes whose innermost items is the primitive or reference node of the leaf.
C7_NestedArrays ==
    pc = "returned" =>
        \A n \in 1..(Len(arg.v) \div 2) :
            LET leaf == SubSeq(arg.v, 1, Len(arg.v) - 2 * n)
            IN  (/\ SubSeq(arg.v, Len(arg.v) - 2 * n + 1, Len(arg.v)) = Markers(n)
                 /\ ~(Len(leaf) >= 2 /\ leaf[Len(leaf) - 1] = "[" /\ leaf[Len(leaf)] = "]"))
                => /\ ArrayDepth(ret) = n
                   /\ Innermost(ret) =
                        IF leaf \in {<<"string">>, <<"number">>, <<"boolean">>}
                        THEN [type |-> leaf]
                        ELSE [ref |-> <<"#/components/schemas/">> \o leaf]

C7_Witness ==
    /\ pc = "returned"
    /\ arg.v = <<"User", "[", "]", "[", "]">>
    /\ ret = [type |-> <<"array">>,
              items |-> [type |-> <<"array">>,
                         items |-> [ref |-> <<"#/components/schemas/", "User">>]]]

IsEnum(node) == node.kind = "EnumDeclaration"

\* the last declaration of its name in the file
LastOfName(i) == \A j \in (i + 1)..Len(file) : file[j].name # file[i].name

\* per member the string-literal initializer, else the member's identifier
MemberValues(node) ==
    [k \in 1..Len(node.members) |->
        IF node.members[k].initializer.typeof = "string"
        THEN [typeof |-> "string", v |-> node.members[k].initializer.v]
        ELSE [typeof |-> "string", v |-> node.members[k].name]]

ManyResolved == pc = "resolved" /\ interfaceName = undefined

Bare(key) == IF Marked(key) THEN SubSeq(key, 1, Len(key) - 1) ELSE key

\* C9: when visitNode meets an interface whose heritage clause names a
\* definition extracted earlier, the merged Definition holds the base fields
\* the subtype does not re-declare and all the subtype's fields, and for
\* every field the subtype declares the schema built from the merged
\* Definition has the subtype's type and the subtype's optionality.
C9_SubtypeOverridesBase ==
    [][(/\ VisitClassOrInterfaceDeclaration
        /\ file[cursor].heritage # <<>>
        /\ Has(definitions, file[cursor].heritage[1])
        /\ Structured(Get(definitions, file[cursor].heritage[1])))
       => LET node == file[cursor]
              base == Get(definitions, node.heritage[1])
              merged == Get(definitions', node.name)
              built == dictToOpenAPI(merged)
              own == {node.members[m].name : m \in 1..Len(node.members)}
          IN  /\ \A b \in 1..Len(base) :
                    Bare(base[b][1]) \notin own =>
                        /\ Has(merged, base[b][1])
                        /\ Get(merged, base[b][1]) = base[b][2]
              /\ \A m \in 1..Len(node.members) :
                    LET name == node.members[m].name
                    IN  /\ Has(built.properties, name)
                        /\ Get(built.properties, name) =
                              typeToSchemaObject(node.members[m].type)
                        /\ node.members[m].questionToken <=>
                              (\A r \in 1..Len(RequiredOf(built)) :
                                  RequiredOf(built)[r] # name)
      ]_vars

\* the node dereferenceArrays must give for a node
RECURSIVE Rewritten(_, _)
Rewritten(in, out) ==
    IF DOMAIN in = {"ref"}
    THEN IF Len(in.ref) >= 2 /\ in.ref[Len(in.ref) - 1] = "[" /\ in.ref[Len(in.ref)] = "]"
         THEN out = [type |-> <<"array">>,
                     items |-> [ref |-> SubSeq(in.ref, 1, Len(in.ref) - 2)]]
         ELSE out = in
    ELSE IF "properties" \in DOMAIN in
         THEN /\ DOMAIN out = DOMAIN in
              /\ \A f \in DOMAIN in \ {"properties"} : out[f] = in[f]
              /\ Len(out.properties) = Len(in.properties)
              /\ \A i \in 1..Len(in.properties) :
                    /\ out.properties[i][1] = in.properties[i][1]
                    /\ Rewritten(in.properties[i][2], out.properties[i][2])
         ELSE IF "items" \in DOMAIN in
              THEN /\ DOMAIN out = DOMAIN in
                   /\ \A f \in DOMAIN in \ {"items"} : out[f] = in[f]
                   /\ Rewritten(in.items, out.items)
              ELSE out = in

RECURSIVE LoadNode(_, _), LoadEntries(_, _)
LoadNode(heap, at) ==
    [f \in DOMAIN heap[at] |->
        IF f = "properties" THEN LoadEntries(heap, heap[at].properties)
        ELSE IF f = "items" THEN LoadNode(heap, heap[at].items)
        ELSE heap[at][f]]

LoadEntries(heap, at) ==
    [i \in 1..Len(heap[at].entries) |->
        <<heap[at].entries[i][1], LoadNode(heap, heap[at].entries[i][2])>>]

\* the heap version computes what the value version computes
HeapAgreesWithValues ==
    pc = "returned" =>
        LoadEntries(ret.heap, ret.addr) =
            dereferenceArrays(LoadEntries(arg.heap, arg.addr))

\* C11: dereferenceArrays does not write to its input: every object that
\* existed before the call (the schema set, its nodes, their properties and
\* items at any depth) has after the call the keys and values it had before,
\* and the returned set is a new object, not the input set.
C11_InputNotMutated ==
    pc = "returned" =>
        /\ Len(ret.heap) >= Len(arg.heap)
        /\ \A at \in 1..Len(arg.heap) : ret.heap[at] = arg.heap[at]
        /\ LoadEntries(ret.heap, arg.addr) = LoadEntries(arg.heap, arg.addr)
        /\ ret.addr # arg.addr
        /\ ret.addr \notin 1..Len(arg.heap)

C11_Witness ==
    /\ pc = "returned"
    /\ LoadEntries(arg.heap, arg.addr) =
          << <<(<<"Users">>), [ref |-> <<"User", "[", "]">>]>>,
             <<(<<"User">>),
               [type |-> <<"object">>,
                properties |-> << <<(<<"id">>), [ref |-> <<"User", "[", "]">>]>> >>]>> >>
    /\ LoadEntries(ret.heap, ret.addr) =
          << <<(<<"Users">>),
               [type |-> <<"array">>, items |-> [ref |-> <<"User">>]]>>,
             <<(<<"User">>),
               [type |-> <<"object">>,
                properties |-> << <<(<<"id">>),
                    [type |-> <<"array">>, items |-> [ref |-> <<"User">>]]>> >>]>> >>
    /\ \A at \in 1..Len(arg.heap) : ret.heap[at] = arg.heap[at]

\* C12: the closure computation terminates for every Definition mapping,
\* also when a name refers to itself or names refer to each other in a
\* cycle: it never recurses for ever (entering a name again with nothing
\* new in the visited set, which ends in a stack overflow).
C12_ClosureTerminates ==
    pc = "generateByName" =>
        ~findReferencedModels(interfaceName.v, definitions).overflow

\* the effective type of a field as C13 states it: a trailing ' | undefined'
\* removed, then the first alternative, trimmed, if a '|' is left
EffectiveType(type) ==
    LET stripped == IF endsWith(type, <<" ", "|", " ", "undefined">>)
                    THEN SubSeq(type, 1, Len(type) - 4)
                    ELSE type
    IN  IF includes(stripped, <<"|">>) THEN trim(splitFirst(stripped, <<"|">>))
        ELSE stripped

\* the last field of a Definition under its name (with or without '?')
LastOfField(def, i) ==
    \A j \in (i + 1)..Len(def) : Bare(def[j][1]) # Bare(def[i][1])

\* C13: in the node built for a Structured Definition, the schema of every
\* field is the conversion of the field's effective type: the type
\* expression without a trailing ' | undefined', cut down to its first
\* alternative (trimmed) if it still holds a '|'.
C13_EffectiveTypeConverted ==
    (pc = "returned" /\ Structured(arg)) =>
        \A i \in 1..Len(arg) :
            LastOfField(arg, i) =>
                /\ Has(ret.properties, Bare(arg[i][1]))
                /\ Get(ret.properties, Bare(arg[i][1])) =
                      typeToSchemaObject(JStr(EffectiveType(arg[i][2].v)))

\* a node of a property: a primitive, a reference, or an array of such
RECURSIVE PropertyShape(_)
PropertyShape(node) ==
    \/ DOMAIN node = {"ref"}
    \/ DOMAIN node = {"type"} /\ node.type \in {<<"string">>, <<"number">>, <<"boolean">>}
    \/ /\ DOMAIN node = {"type", "items"}
       /\ node.type = <<"array">>
       /\ PropertyShape(node.items)

ObjectShape(node) ==
    /\ DOMAIN node \in {{"type", "properties"}, {"type", "properties", "required"}}
    /\ node.type = <<"object">>
    /\ \A i \in 1..Len(node.properties) : PropertyShape(node.properties[i][2])

EnumShape(node) ==
    /\ DOMAIN node = {"type", "enum"}
    /\ node.type \in {<<"string">>, <<"number">>, <<"boolean">>}

\* C14: every node built for a declared name is an object node (type
\* 'object', properties, possibly required, and nothing else) or an enum
\* node (type and enum, and nothing else), never a mix of the two, also when
\* the name was declared both as an enum or type alias and as an interface.
C14_NeverHybrid ==
    pc \in {"dereferenceArrays", "resolved"} =>
        \A i \in 1..Len(schemas) :
            /\ ObjectShape(schemas[i][2]) \/ EnumShape(schemas[i][2])
            /\ ~(ObjectShape(schemas[i][2]) /\ EnumShape(schemas[i][2]))

\* a name declared as an enum and then as an interface: the Definition holds
\* the enum list and the field, the node is an enum node
C14_Witness ==
    /\ pc = "dereferenceArrays"
    /\ interfaceName = undefined
    /\ Has(definitions, <<"Role">>)
    /\ Keys(Get(definitions, <<"Role">>)) = << <<"enum">>, <<"z">> >>
    /\ Get(schemas, <<"Role">>) =
          [type |-> <<"string">>,
           enum |-> <<[typeof |-> "string", v |-> <<"admin">>],
                      [typeof |-> "string", v |-> <<"user">>]>>]

\* C15: the visited set the closure computation returns holds no primitive
\* type name, whatever the field type expressions are.
C15_NoPrimitiveVisited ==
    referencedModels \cap
        {<<"string">>, <<"number">>, <<"boolean">>, <<"any">>, <<"unknown">>,
         <<"null">>, <<"undefined">>, <<"void">>, <<"never">>, <<"object">>,
         <<"array">>} = {}

\* the Definition a declaration gives when nothing was declared before it
Alone(node) ==
    Get(CASE node.kind = "EnumDeclaration" -> visitEnum(<<>>, node)
          [] node.kind = "InterfaceDeclaration" -> visitClassOrInterface(<<>>, node)
          [] node.kind = "TypeAliasDeclaration" -> visitTypeAlias(<<>>, node)
          [] node.kind = "VariableStatement" -> visitVariableStatement(<<>>, node),
        node.name)

\* visitNode is about to visit a declaration whose name already has a
\* Definition, and no base named in a heritage clause has one
Redeclaring ==
    /\ pc = "visitNode"
    /\ cursor <= Len(file)
    /\ Has(definitions, file[cursor].name)
    /\ file[cursor].kind = "InterfaceDeclaration" =>
          \A h \in 1..Len(file[cursor].heritage) :
              ~Has(definitions, file[cursor].heritage[h])

\* C16 as stated: the later declaration's Definition replaces the earlier one.
C16_LaterReplacesEarlier ==
    [][Redeclaring =>
          Get(definitions', file[cursor].name) = Alone(file[cursor])]_vars

\* C16: a later enum, union type alias or const declaration of a name
\* replaces the Definition the name had; a later class or interface
\* declaration (or an alias that is no union) keeps every field the
\* Definition had, in place, and adds its own, its value winning under a key
\* both have.
C16_LaterReplacesOrExtends ==
    [][Redeclaring =>
          LET node == file[cursor]
              keeps == \/ node.kind = "InterfaceDeclaration"
                       \/ node.kind = "TypeAliasDeclaration" /\ ~node.isUnion
          IN  Get(definitions', node.name) =
                IF keeps
                THEN Spread(Get(definitions, node.name), Alone(node))
                ELSE Alone(node)]_vars

\* interface Role { z } and then enum Role: z is gone
C16_Witness ==
    /\ pc = "visitNode"
    /\ cursor = 3
    /\ file[1].kind = "InterfaceDeclaration"
    /\ file[1].name = <<"Role">>
    /\ file[2].kind = "EnumDeclaration"
    /\ file[2].name = <<"Role">>
    /\ file[2].members # <<>>
    /\ Keys(Get(definitions, <<"Role">>)) = << <<"enum">> >>

\* interface Base { x; y } and then interface Base { x?; y }: x is kept
C16_WitnessExtends ==
    /\ pc = "visitNode"
    /\ cursor = 3
    /\ file[1].name = <<"Base">>
    /\ file[2].name = <<"Base">>
    /\ Keys(Get(definitions, <<"Base">>)) = << <<"x">>, <<"y">>, <<"x", "?">> >>

\* the keys a declaration's annotated members give: the name, with '?' for
\* an optional member
OwnKeys(node) ==
    {node.members[m].name \o (IF node.members[m].questionToken THEN <<"?">> ELSE <<>>) :
        m \in {k \in 1..Len(node.members) : node.members[k].type.typeof # "undefined"}}

\* visitNode is about to visit an interface whose heritage clause names
\* only declarations without a Definition
MissingBase ==
    /\ pc = "visitNode"
    /\ cursor <= Len(file)
    /\ file[cursor].kind = "InterfaceDeclaration"
    /\ file[cursor].heritage # <<>>
    /\ \A h \in 1..Len(file[cursor].heritage) :
          ~Has(definitions, file[cursor].heritage[h])

StepwiseAgrees ==
    pc \in {"resolved", "rejected"} =>
        /\ prototype = CleanPrototype
        /\ result = generateCall(pathToFile, file, interfaceName, prototype).result

\* C17: the calls generateNamedSchemas and generateUnnamedSchemas dispatch
\* share no state that one of them changes: whatever calls ran before it,
\* every call settles with what it settles with when it runs alone, in a
\* fresh process, on the same path and name.
C17_CallsAreIndependent ==
    \A i \in 1..Len(arg) :
        (pc = "generate" /\ ret[i] # undefined) =>
            ret[i] = generateCall(<<arg[i].path>>, SourceFiles[arg[i].path],
                                  arg[i].interfaceName,
                                  [member \in DOMAIN prototype |-> <<>>]).result

\* a token whose exp claim decodes and lies at or after the time
Fresh(token, time) ==
    /\ "jwt" \in DOMAIN token
    /\ token.jwt
    /\ token.exp.typeof = "number"
    /\ token.exp.v # 0
    /\ time <= token.exp.v

\* C18: a getAccessToken call posts to the token endpoint exactly when no
\* token is cached or the cached token is expired or its expiry cannot be
\* decoded; otherwise it returns the cached token and nothing is posted;
\* and a call whose fetch succeeded returns the token it fetched.
C18_TokenIsCached ==
    [][/\ \A client \in {"vtx", "vta"} :
             GetAccessToken(client) =>
                IF Fresh(accessToken, clock)
                THEN /\ pending' = pending
                     /\ accessToken' = accessToken
                     /\ settled'.resolved = accessToken
                     /\ ~settled'.fetched
                ELSE /\ Len(pending') = Len(pending) + 1
                     /\ settled' = settled
       /\ (Len(pending') < Len(pending) /\ "resolved" \in DOMAIN settled') =>
             /\ settled'.fetched
             /\ settled'.resolved = accessToken'
             /\ \E k \in 1..Len(pending) :
                   FetchClientCredentials(k, [ok |-> TRUE,
                                              access_token |-> settled'.resolved])
      ]_vars

\* a call returned the cached token, fetched by an earlier call, at a later
\* time
C18_Witness ==
    /\ pc = "getAccessToken"
    /\ settled # undefined
    /\ ~settled.fetched
    /\ settled.resolved = accessToken
    /\ Fresh(accessToken, clock)
    /\ clock > 0

(***************************************************************************)
(* C19: getProfile resolves with the original defaults in which every flag *)
(* the remote configuration holds, nested ones included, has the remote    *)
(* value and every other flag its default; with an empty remote            *)
(* configuration it resolves with exactly the defaults.                    *)
(***************************************************************************)
\* defaults with the flags of remote set to their remote values, group by
\* group; a flag is a boolean or a list of numbers
RECURSIVE overrideLoop(_, _, _)
overrideLoop(defaults, remote, i) ==
    IF i > Len(remote.v)
    THEN defaults
    ELSE LET key == remote.v[i][1]
             value == remote.v[i][2]
             default == safeGet(defaults, key)
         IN  overrideLoop(
                JObj(Put(defaults.v, key,
                         IF isPlainObject(value) /\ default # undefined
                         THEN overrideLoop(default, value, 1) ELSE value)),
                remote, i + 1)

C19_ProfileIsDefaultsOverridden ==
    profile # undefined =>
        /\ profile = overrideLoop(DefaultFeatureFlags, flags, 1)
        /\ flags = JObj(<<>>) => profile = DefaultFeatureFlags

(***************************************************************************)
(* C30: getProfile leaves the module's default flags as declared, and a    *)
(* call resolves with the declared default of every flag, nested ones      *)
(* included, that its remote configuration omits, whatever earlier calls   *)
(* were given.                                                             *)
(***************************************************************************)
\* every flag of defaults that remote omits has its default value in merged
RECURSIVE omittedKeepDefaults(_, _, _)
omittedKeepDefaults(merged, defaults, remote) ==
    \A i \in 1..Len(defaults.v) :
        LET key == defaults.v[i][1]
            default == defaults.v[i][2]
            value == safeGet(remote, key)
        IN  IF value = undefined
            THEN safeGet(merged, key) = default
            ELSE (isPlainObject(default) /\ isPlainObject(value))
                    => omittedKeepDefaults(safeGet(merged, key), default, value)

C30_DefaultsUnchanged ==
    /\ defaultFeatureFlags = DefaultFeatureFlags
    /\ profile # undefined
          => omittedKeepDefaults(profile, DefaultFeatureFlags, flags)

(***************************************************************************)
(* C29: the token a getAccessToken call resolves with was issued to the    *)
(* client of the instance the call was made on, never to the client of     *)
(* another instance.                                                       *)
(***************************************************************************)
C29_TokenOfOwnInstance ==
    ("resolved" \in DOMAIN settled /\ settled.resolved # undefined)
        => settled.resolved.client = settled.client

(***************************************************************************)
(* C23: for a Definition that holds a list of literal values, dictToOpenAPI *)
(* returns the node with the list as its enum and with type 'boolean' if   *)
(* every element is a boolean, else 'number' if every element is a number, *)
(* else 'string', and with nothing else: the fields of the Definition give *)
(* no properties.  With several lists the first one counts.                *)
(***************************************************************************)
HoldsList(obj) == \E i \in 1..Len(obj) : obj[i][2].typeof = "object"

FirstList(obj) ==
    obj[CHOOSE i \in 1..Len(obj) :
           /\ obj[i][2].typeof = "object"
           /\ \A j \in 1..(i - 1) : obj[j][2].typeof # "object"][2].v

ElementType(values) ==
    IF \A i \in 1..Len(values) : values[i].typeof = "boolean" THEN <<"boolean">>
    ELSE IF \A i \in 1..Len(values) : values[i].typeof = "number" THEN <<"number">>
    ELSE <<"string">>

C23_EnumTypeInferred ==
    (pc = "returned" /\ HoldsList(arg)) =>
        ret = [type |-> ElementType(FirstList(arg)), enum |-> FirstList(arg)]

\* a field, then a list of a number and a boolean: a 'string' enum node
C23_Witness ==
    /\ pc = "returned"
    /\ arg = << <<W("x"), JStr(W("User"))>>,
                <<W("enum"), JArr(<<JNum(1), JBool(TRUE)>>)>> >>
    /\ ret = [type |-> <<"string">>, enum |-> <<JNum(1), JBool(TRUE)>>]

(***************************************************************************)
(* C27: dereferenceArrays applied to what dereferenceArrays returned gives *)
(* that same schema set again, also for references that end in several     *)
(* '[]' markers.                                                           *)
(***************************************************************************)
C27_DereferenceArraysIdempotent ==
    pc = "returned" => dereferenceArrays(ret) = ret

(***************************************************************************)
(* C26: the schema set dictToOpenAPI builds from the Definitions of a file *)
(* holds no $ref ending in '[]', at any depth, and so the schema set that  *)
(* generateMany or generateByName resolves with, after dereferenceArrays,  *)
(* equals the schema set that was built.                                   *)
(***************************************************************************)
RECURSIVE HasArrayReference(_)
HasArrayReference(node) ==
    \/ "ref" \in DOMAIN node /\ endsWith(node.ref, <<"[", "]">>)
    \/ "items" \in DOMAIN node /\ HasArrayReference(node.items)
    \/ /\ "properties" \in DOMAIN node
       /\ \E i \in 1..Len(node.properties) :
             HasArrayReference(node.properties[i][2])

C26_DereferenceArraysChangesNothing ==
    /\ pc \in {"dereferenceArrays", "resolved"} =>
          \A i \in 1..Len(schemas) : ~HasArrayReference(schemas[i][2])
    /\ pc = "resolved" => result.resolved = schemas

\* a field of type B[] was built as an array of references to B
C26_Witness ==
    /\ pc = "resolved"
    /\ Has(schemas, <<"A">>)
    /\ Get(schemas, <<"A">>).properties =
          << <<W("x"), [type |-> W("array"),
                        items |-> [ref |-> <<"#/components/schemas/", "B">>]]>> >>
    /\ result.resolved = schemas

\* typeToSchemaObject never returns a reference ending in '[]'
TypeNodeHasNoArrayReference ==
    pc = "returned" => ~HasArrayReference(ret)

(***************************************************************************)
(* C28: generateByName resolves with no Definition other than the root     *)
(* that cannot be reached from the root through field types; the values    *)
(* of an enum list are not names, so an enum value that is the name of a   *)
(* Definition does not bring that Definition in.                           *)
(***************************************************************************)
\* the name a field type refers to: without ' | undefined', the first
\* alternative of a union, without trailing '[]'
RECURSIVE ElementName(_)
ElementName(type) ==
    IF endsWith(type, <<"[", "]">>) THEN ElementName(sliceEnd(type, 2)) ELSE type

ReferredName(type) ==
    ElementName(trim(splitFirst(replaceFirst(type, <<" ", "|", " ", "undefined">>),
                                <<"|">>)))

\* the names the fields of the Definitions in names refer to
FieldReferences(defs, names) ==
    UNION {{ReferredName(defs[i][2][k][2].v) :
               k \in {f \in 1..Len(defs[i][2]) :
                         defs[i][2][f][2].typeof = "string"}} :
           i \in {d \in 1..Len(defs) : defs[d][1] \in names}}

RECURSIVE ReachableThroughFields(_, _)
ReachableThroughFields(defs, names) ==
    LET more == names \cup FieldReferences(defs, names)
    IN  IF more = names THEN names ELSE ReachableThroughFields(defs, more)

C28_OnlyReachableIncluded ==
    (pc = "resolved" /\ interfaceName # undefined) =>
        \A i \in 1..Len(result.resolved) :
            result.resolved[i][1] \in
                ReachableThroughFields(definitions, {interfaceName.v})

(***************************************************************************)
(* C22: in the document transformReferences returns no string holds        *)
(* '#/definitions/': every string is the string of the document before,    *)
(* with each occurrence replaced by '#/components/schemas/'; objects have  *)
(* the keys they had, arrays the length they had, and numbers, booleans    *)
(* and null are as they were.                                              *)
(***************************************************************************)
RECURSIVE HoldsDefinitionsPointer(_)
HoldsDefinitionsPointer(value) ==
    IF value.typeof = "string"
    THEN includes(value.v, <<"#", "/", "definitions", "/">>)
    ELSE IF value.typeof = "object"
    THEN \E i \in 1..Len(value.v) :
            HoldsDefinitionsPointer(IF "isArray" \in DOMAIN value
                                    THEN value.v[i] ELSE value.v[i][2])
    ELSE FALSE

\* after is before with its strings rewritten and nothing else changed
RECURSIVE RewrittenFrom(_, _)
RewrittenFrom(before, after) ==
    IF before.typeof = "string"
    THEN /\ after.typeof = "string"
         /\ after.v = replaceAll(before.v, <<"#", "/", "definitions", "/">>,
                                 <<"#", "/", "components", "/", "schemas", "/">>)
    ELSE IF before.typeof = "object"
    THEN /\ after.typeof = "object"
         /\ DOMAIN after = DOMAIN before
         /\ Len(after.v) = Len(before.v)
         /\ \A i \in 1..Len(before.v) :
               IF "isArray" \in DOMAIN before
               THEN RewrittenFrom(before.v[i], after.v[i])
               ELSE /\ after.v[i][1] = before.v[i][1]
                    /\ RewrittenFrom(before.v[i][2], after.v[i][2])
    ELSE after = before

C22_ReferencesTransformed ==
    pc = "returned" => ~HoldsDefinitionsPointer(ret) /\ RewrittenFrom(arg, ret)

(***************************************************************************)
(* C24: fullScan and recursiveFetch return the Items of every page, in     *)
(* page order; every command after the first carries the LastEvaluatedKey  *)
(* of the page before it as ExclusiveStartKey; and the call returns right  *)
(* after the first page that has no LastEvaluatedKey, not before and not   *)
(* later.                                                                  *)
(***************************************************************************)
RECURSIVE ItemsOf(_)
ItemsOf(received) ==
    IF received = <<>> THEN <<>>
    ELSE ItemsOf(SubSeq(received, 1, Len(received) - 1))
         \o (IF "Items" \in DOMAIN received[Len(received)]
             THEN received[Len(received)].Items ELSE <<>>)

C24_ScanCollectsEveryPage ==
    pc \in {"send", "returned"} =>
        /\ rows = ItemsOf(pages)
        /\ \A i \in 1..Len(sent) :
              /\ sent[i].command = arg.command
              /\ i > 1 => sent[i].ExclusiveStartKey = pages[i - 1].LastEvaluatedKey
        /\ \A i \in 1..(Len(pages) - 1) : pages[i].LastEvaluatedKey # undefined
        /\ IF pc = "returned"
           THEN /\ pages # <<>>
                /\ pages[Len(pages)].LastEvaluatedKey = undefined
                /\ Len(sent) = Len(pages)
                /\ ret = ItemsOf(pages)
           ELSE /\ Len(sent) = Len(pages) + 1
                /\ \A i \in 1..Len(pages) : pages[i].LastEvaluatedKey # undefined

\* three pages, the second without Items, returned as one list
C24_Witness ==
    /\ pc = "returned"
    /\ arg.call = "fullScan"
    /\ Len(pages) = 3
    /\ "Items" \notin DOMAIN pages[2]
    /\ ret = <<W("b"), W("c"), W("a")>>

(***************************************************************************)
(* C25: after any registerLambdaHandler calls, global.lambdaHandlers holds *)
(* every class that was registered exactly once, in the order in which     *)
(* the classes were first registered (so that registering a class again    *)
(* changes nothing), and the call returned the class it was given.         *)
(***************************************************************************)
FirstRegistration(target) ==
    CHOOSE i \in 1..Len(registrations) :
        /\ registrations[i] = target
        /\ \A j \in 1..(i - 1) : registrations[j] # target

C25_RegisteredOnceInOrder ==
    /\ {lambdaHandlers[i] : i \in 1..Len(lambdaHandlers)}
          = {registrations[i] : i \in 1..Len(registrations)}
    /\ \A i, j \in 1..Len(lambdaHandlers) :
          i < j => FirstRegistration(lambdaHandlers[i])
                      < FirstRegistration(lambdaHandlers[j])
    /\ registrations # <<>> => ret = registrations[Len(registrations)]

\* a class registered, another, and the first again
C25_Witness ==
    /\ registrations = <<[class |-> "PostUser"], [class |-> "GetUser"],
                         [class |-> "PostUser"]>>
    /\ lambdaHandlers = <<[class |-> "PostUser"], [class |-> "GetUser"]>>
    /\ ret = [class |-> "PostUser"]

(***************************************************************************)
(* C21: generate resolves with a document whatever the imports of the      *)
(* handler directories do: every directory of src/functions is required,   *)
(* in order, a directory whose import throws is logged and the ones after  *)
(* it are required all the same; without src/functions nothing is          *)
(* required, nothing is logged and the paths are the ones generate had     *)
(* before the lambda step.                                                 *)
(***************************************************************************)
DirectoryNames(entries) ==
    LET dirs == SelectSeq(entries, LAMBDA h : h.isDirectory)
    IN  [i \in 1..Len(dirs) |-> dirs[i].name]

FailedNames(entries) ==
    LET failed == SelectSeq(entries, LAMBDA h : h.isDirectory /\ h.module.throws)
    IN  [i \in 1..Len(failed) |-> failed[i].name]

C21_ImportFailuresAreSkipped ==
    pc = "resolved" =>
        /\ DOMAIN result = {"resolved"}
        /\ "paths" \in DOMAIN result.resolved
        /\ IF ~arg.functionsDir.exists
           THEN /\ imports = <<>>
                /\ errors = <<>>
                /\ ~lambdaHandlersRegistered
                /\ result.resolved.paths = arg.paths
           ELSE arg.functionsDir.readable =>
                /\ imports = DirectoryNames(arg.functionsDir.entries)
                /\ [i \in 1..Len(errors) |-> errors[i].name]
                      = FailedNames(arg.functionsDir.entries)

\* the first directory throws, the second is imported and gives the paths
C21_Witness ==
    /\ pc = "resolved"
    /\ imports = <<1, 2>>
    /\ [i \in 1..Len(errors) |-> errors[i].name] = <<1>>
    /\ lambdaHandlersRegistered
    /\ Has(result.resolved.paths, <<"/users">>)
    /\ arg.paths = <<>>

====
